---- MODULE Spec2Model ----
(***************************************************************************)
(* The server-side handle manager of agfs-server (package filesystem):     *)
(* a table of leased file handles, the foreground operations Register,     *)
(* Get, GetInfo, Renew and Close, the background cleanupLoop goroutine and *)
(* Stop.  Every operation runs its whole body under hm.mu, so each call is *)
(* one atomic step and concurrent calls are the interleavings of these     *)
(* steps.                                                                  *)
(*                                                                         *)
(* Time is a discrete clock `now`; durations are counted in clock ticks.   *)
(* Path, Flags and CreatedAt of a ManagedHandle are stored once by         *)
(* Register and never read by the manager; they are left out.              *)
(*                                                                         *)
(* The FUSE bridge of agfs-fuse (package fusefs) follows the handle        *)
(* manager: its client-side handle table (handles.go), the node operations *)
(* and the attribute and directory caches they use (node.go).  The bridge  *)
(* holds hm.mu only around its table accesses, never across a call to the  *)
(* server, so Close, CloseAll and Create are several steps of a kernel     *)
(* thread.  The server is the environment: each call to it succeeds or     *)
(* fails with one of the error kinds.                                      *)
(*                                                                         *)
(* Four further parts stand next to these.  The table locks: every method  *)
(* of the two handle managers as the sequence of its lock statements and   *)
(* its calls out of the package.  The index queue of the vectorfs plugin:  *)
(* Write, the index workers, the overflow goroutines and Shutdown, with    *)
(* the tables of the database they fill.  The file plugins DevFS, vectorfs,*)
(* sqlfs2 and s3fs: Read, Truncate and Chmod on one regular file.  The     *)
(* symlink overlay of the router, which is not part of the sources at hand *)
(* and is written down from the specification.                             *)
(*                                                                         *)
(* Where the order of single statements matters the same code is taken at  *)
(* a finer grain: Get, Renew and cleanup of the server's handle manager    *)
(* statement by statement in two goroutines (ReapSpec); a Read of the      *)
(* bridge split at its call to the server (ReadRaceSpec); Getattr and      *)
(* Lookup split between their cache miss, client.Stat and metaCache.Set    *)
(* (StatRaceSpec); a directory with one entry below it (TreeSpec); and the *)
(* index queue in a run in which Shutdown is never called (QueueLiveSpec). *)
(***************************************************************************)
EXTENDS Integers, Sequences, FiniteSets

\* ------------------------------------------------------------ bounds
\* Registrations accepted over the lifetime of one manager (attempts made
\* while the table is full are not counted).
MaxRegs == 2
\* Client calls run at times 0 .. Horizon-1.
Horizon == 3

\* ------------------------------------------------------------ configuration
\* HandleManagerConfig, in clock ticks.
DefaultLease == 2
MaxLease == 3
MaxHandles == 2

\* The clock stops once every lease granted before Horizon has run out.
MaxTime == Horizon + MaxLease

\* Plugin handles handed to Register, one per open; 0 stands for nil.
PluginHandles == {100 + k : k \in 1..(MaxRegs + 1)}
\* Requested leases: negative, zero, short, and beyond MaxLease.
LeaseInputs == {-1, 0, 1, MaxLease + 1}

\* ------------------------------------------------------------ bounds, FUSE bridge
\* Calls of the bridge's Open over the lifetime of one mount.
MaxOpens == 2

\* ------------------------------------------------------------ bounds, vectorfs
\* Calls of vectorFS.Write over the lifetime of one plugin.
MaxWrites == 2
\* Capacity of v.indexQueue and the number of index workers.
QueueCap == 1
IndexWorkers == 2

\* ------------------------------------------------------------ bounds, file plugins
\* Longest file content, and the largest size passed to Truncate.
MaxSize == 3

VARIABLES
    handles,     \* hm.handles: id -> ManagedHandle
    now,         \* time.Now()
    stopCh,      \* hm.stopCh: "open" or "closed"
    loopPc,      \* the cleanupLoop goroutine: "select" or "done" (hm.wg)
    stopPc,      \* the caller of Stop: "idle", "wait" (at hm.wg.Wait) or "done"
    last,        \* the step just taken: operation, arguments, what it returned,
                 \* the plugin handles whose Close it invoked, and those of
                 \* them whose Close returned an error
    closes,      \* per plugin handle: who invoked its Close, in order
    registered   \* plugin handles accepted by Register, in order; the k-th got id k

\* The FUSE bridge
VARIABLES
    bridgeHandles, \* fusefs hm.handles: FUSE handle id -> handleInfo
    nextHandle,    \* fusefs hm.nextHandle
    metaCache,     \* root.metaCache: path -> its entry, which is TRUE when a mutating
                   \* operation on the path has succeeded since the entry was stored
    dirCache,      \* root.dirCache: path -> its entry, TRUE when a mutating operation
                   \* on a child of the path has succeeded since it was stored
    pc,            \* per kernel thread: where it is in Close, CloseAll or Create
    lastCall,      \* the bridge step just taken: arguments, the server's answer,
                   \* what the bridge returned and the calls it sent to the server
    files,         \* the server: path -> content of the file
    closeSent,     \* the server: per server handle id, the close-handle calls received
    readsSeen      \* the FUSE handle ids that Read was called on

\* Locks, and the plugins behind the server
VARIABLES
    lockPc,        \* per goroutine: the handler it runs and the statement it is at
    v,             \* the VectorFSPlugin and the tables of its database: the index
                   \* queue, the shutdown channel, the in-flight markers, the worker
                   \* and supervisor goroutines, the caller of Shutdown, the step
                   \* just taken
    plug,          \* the file plugins: the bytes stored under the one regular file
                   \* of vectorfs and of s3fs, and the call just made
    sym,           \* the symlink store of the server, and the resolution just made
    reap           \* the server's handle manager with its handlers taken statement
                   \* by statement: hm.mu, hm.handles, the clock, the plugin handles
                   \* whose Close was invoked, where every goroutine is in its
                   \* handler, and the statement just run

moreVars == <<lockPc, v, plug, sym, reap>>

hmVars == <<handles, now, stopCh, loopPc, stopPc, last, closes, registered>>

bridgeVars == <<bridgeHandles, nextHandle, metaCache, dirCache, pc, lastCall, files,
                closeSent, readsSeen>>

vars == <<handles, now, stopCh, loopPc, stopPc, last, closes, registered,
          bridgeHandles, nextHandle, metaCache, dirCache, pc, lastCall, files,
          closeSent, readsSeen, moreVars>>

NoStep == [op |-> "none", id |-> 0, lease |-> 0, res |-> "none", val |-> 0,
           closed |-> {}, failed |-> {}]

\* ------------------------------------------------------------ helpers

\* delete(hm.handles, id)
delete(hs, id) == [i \in (DOMAIN hs) \ {id} |-> hs[i]]

\* hm.handles[id] = mh
put(hs, id, mh) == [i \in (DOMAIN hs) \cup {id} |-> IF i = id THEN mh ELSE hs[i]]

\* mh.Handle.Close(): one more invocation of the plugin handle's Close
HandleClose(cl, h, who) == [cl EXCEPT ![h] = Append(@, who)]

\* now.After(mh.ExpiresAt)
After(t, u) == t > u

\* generateID(): sixteen random bytes, hex-encoded.  A 128-bit random value is
\* taken to differ from every value drawn before: the k-th id is k.
generateID(regs) == Len(regs) + 1

\* ------------------------------------------------------------ handlers
\* Each handler maps the state it reads and its arguments to the state it
\* leaves behind and the values it returns.

\* Register with the capacity test written > instead of >=
Register_offByOne(hs, regs, handle, lease, t) ==
    IF Cardinality(DOMAIN hs) > MaxHandles
    THEN [handles |-> hs, registered |-> regs, res |-> "capacity", id |-> 0, val |-> 0]
    ELSE LET l1 == IF lease <= 0 THEN DefaultLease ELSE lease
             l2 == IF l1 > MaxLease THEN MaxLease ELSE l1
             expiresAt == t + l2
             id == generateID(regs)
         IN  [handles |-> put(hs, id, [Handle |-> handle, LeaseTime |-> l2,
                                        ExpiresAt |-> expiresAt, LastAccess |-> t]),
              registered |-> Append(regs, handle),
              res |-> "ok", id |-> id, val |-> expiresAt]

Register(hs, regs, handle, lease, t) ==
    IF Cardinality(DOMAIN hs) >= MaxHandles
    THEN [handles |-> hs, registered |-> regs, res |-> "capacity", id |-> 0, val |-> 0]
    ELSE LET l1 == IF lease <= 0 THEN DefaultLease ELSE lease
             l2 == IF l1 > MaxLease THEN MaxLease ELSE l1
             expiresAt == t + l2
             id == generateID(regs)
         IN  [handles |-> put(hs, id, [Handle |-> handle, LeaseTime |-> l2,
                                        ExpiresAt |-> expiresAt, LastAccess |-> t]),
              registered |-> Append(regs, handle),
              res |-> "ok", id |-> id, val |-> expiresAt]

\* Get that records the access but leaves ExpiresAt as it was
Get_noRefresh(hs, cl, id, t) ==
    IF id \notin DOMAIN hs
    THEN [handles |-> hs, closes |-> cl, res |-> "notfound", val |-> 0, closed |-> {}]
    ELSE IF After(t, hs[id].ExpiresAt)
    THEN [handles |-> delete(hs, id), closes |-> HandleClose(cl, hs[id].Handle, "Get"),
          res |-> "notfound", val |-> 0, closed |-> {hs[id].Handle}]
    ELSE [handles |-> [hs EXCEPT ![id].LastAccess = t],
          closes |-> cl, res |-> "ok", val |-> hs[id].Handle, closed |-> {}]

Get(hs, cl, id, t) ==
    IF id \notin DOMAIN hs
    THEN [handles |-> hs, closes |-> cl, res |-> "notfound", val |-> 0, closed |-> {}]
    ELSE IF After(t, hs[id].ExpiresAt)
    THEN [handles |-> delete(hs, id), closes |-> HandleClose(cl, hs[id].Handle, "Get"),
          res |-> "notfound", val |-> 0, closed |-> {hs[id].Handle}]
    ELSE [handles |-> [hs EXCEPT ![id].LastAccess = t,
                                 ![id].ExpiresAt = t + hs[id].LeaseTime],
          closes |-> cl, res |-> "ok", val |-> hs[id].Handle, closed |-> {}]

GetInfo(hs, id, t) ==
    IF id \notin DOMAIN hs
    THEN [res |-> "notfound", val |-> 0]
    ELSE IF After(t, hs[id].ExpiresAt)
    THEN [res |-> "notfound", val |-> 0]
    ELSE [res |-> "ok", val |-> hs[id].ExpiresAt]

\* Renew without the expiry test: a lease that has run out is revived
Renew_revives(hs, cl, id, lease, t) ==
    IF id \notin DOMAIN hs
    THEN [handles |-> hs, closes |-> cl, res |-> "notfound", val |-> 0, closed |-> {}]
    ELSE LET l1 == IF lease <= 0 THEN hs[id].LeaseTime ELSE lease
             l2 == IF l1 > MaxLease THEN MaxLease ELSE l1
         IN  [handles |-> [hs EXCEPT ![id].LeaseTime = l2,
                                     ![id].ExpiresAt = t + l2,
                                     ![id].LastAccess = t],
              closes |-> cl, res |-> "ok", val |-> t + l2, closed |-> {}]

\* Renew without the cap at MaxLease
Renew_noCap(hs, cl, id, lease, t) ==
    IF id \notin DOMAIN hs
    THEN [handles |-> hs, closes |-> cl, res |-> "notfound", val |-> 0, closed |-> {}]
    ELSE IF After(t, hs[id].ExpiresAt)
    THEN [handles |-> delete(hs, id), closes |-> HandleClose(cl, hs[id].Handle, "Renew"),
          res |-> "notfound", val |-> 0, closed |-> {hs[id].Handle}]
    ELSE LET l1 == IF lease <= 0 THEN hs[id].LeaseTime ELSE lease
         IN  [handles |-> [hs EXCEPT ![id].LeaseTime = l1,
                                     ![id].ExpiresAt = t + l1,
                                     ![id].LastAccess = t],
              closes |-> cl, res |-> "ok", val |-> t + l1, closed |-> {}]

\* Renew that falls back to DefaultLease, as Register does, for a lease <= 0
Renew_usesDefault(hs, cl, id, lease, t) ==
    IF id \notin DOMAIN hs
    THEN [handles |-> hs, closes |-> cl, res |-> "notfound", val |-> 0, closed |-> {}]
    ELSE IF After(t, hs[id].ExpiresAt)
    THEN [handles |-> delete(hs, id), closes |-> HandleClose(cl, hs[id].Handle, "Renew"),
          res |-> "notfound", val |-> 0, closed |-> {hs[id].Handle}]
    ELSE LET l1 == IF lease <= 0 THEN DefaultLease ELSE lease
             l2 == IF l1 > MaxLease THEN MaxLease ELSE l1
         IN  [handles |-> [hs EXCEPT ![id].LeaseTime = l2,
                                     ![id].ExpiresAt = t + l2,
                                     ![id].LastAccess = t],
              closes |-> cl, res |-> "ok", val |-> t + l2, closed |-> {}]

Renew(hs, cl, id, lease, t) ==
    IF id \notin DOMAIN hs
    THEN [handles |-> hs, closes |-> cl, res |-> "notfound", val |-> 0, closed |-> {}]
    ELSE IF After(t, hs[id].ExpiresAt)
    THEN [handles |-> delete(hs, id), closes |-> HandleClose(cl, hs[id].Handle, "Renew"),
          res |-> "notfound", val |-> 0, closed |-> {hs[id].Handle}]
    ELSE LET l1 == IF lease <= 0 THEN hs[id].LeaseTime ELSE lease
             l2 == IF l1 > MaxLease THEN MaxLease ELSE l1
         IN  [handles |-> [hs EXCEPT ![id].LeaseTime = l2,
                                     ![id].ExpiresAt = t + l2,
                                     ![id].LastAccess = t],
              closes |-> cl, res |-> "ok", val |-> t + l2, closed |-> {}]

\* Close that calls the plugin Close and leaves the record in the table
Close_keepsRecord(hs, cl, id, failed) ==
    IF id \notin DOMAIN hs
    THEN [handles |-> hs, closes |-> cl, res |-> "notfound", closed |-> {}]
    ELSE [handles |-> hs, closes |-> HandleClose(cl, hs[id].Handle, "Close"),
          res |-> IF failed THEN "error" ELSE "ok", closed |-> {hs[id].Handle}]

\* failed: whether the plugin handle's Close returns an error
Close(hs, cl, id, failed) ==
    IF id \notin DOMAIN hs
    THEN [handles |-> hs, closes |-> cl, res |-> "notfound", closed |-> {}]
    ELSE [handles |-> delete(hs, id), closes |-> HandleClose(cl, hs[id].Handle, "Close"),
          res |-> IF failed THEN "error" ELSE "ok", closed |-> {hs[id].Handle}]

\* cleanup that closes the expired handles and leaves their records in the table
cleanup_keepsRecords(hs, cl, t, failing) ==
    LET expired == {id \in DOMAIN hs : After(t, hs[id].ExpiresAt)}
        closed == {hs[id].Handle : id \in expired}
    IN  [handles |-> hs,
         closes |-> [h \in DOMAIN cl |->
                        IF h \in closed THEN Append(cl[h], "cleanup") ELSE cl[h]],
         closed |-> closed, failed |-> closed \cap failing]

\* cleanup with the comparison turned round: mh.ExpiresAt.After(now)
cleanup_reversed(hs, cl, t, failing) ==
    LET expired == {id \in DOMAIN hs : After(hs[id].ExpiresAt, t)}
        closed == {hs[id].Handle : id \in expired}
    IN  [handles |-> [i \in (DOMAIN hs) \ expired |-> hs[i]],
         closes |-> [h \in DOMAIN cl |->
                        IF h \in closed THEN Append(cl[h], "cleanup") ELSE cl[h]],
         closed |-> closed, failed |-> closed \cap failing]

\* cleanup that deletes the expired records without calling mh.Handle.Close()
cleanup_noClose(hs, cl, t, failing) ==
    LET expired == {id \in DOMAIN hs : After(t, hs[id].ExpiresAt)}
    IN  [handles |-> [i \in (DOMAIN hs) \ expired |-> hs[i]],
         closes |-> cl,
         closed |-> {}, failed |-> {}]

\* The error of mh.Handle.Close() is dropped.
\* failing: the plugin handles whose Close returns an error
cleanup(hs, cl, t, failing) ==
    LET expired == {id \in DOMAIN hs : After(t, hs[id].ExpiresAt)}
        closed == {hs[id].Handle : id \in expired}
    IN  [handles |-> [i \in (DOMAIN hs) \ expired |-> hs[i]],
         closes |-> [h \in DOMAIN cl |->
                        IF h \in closed THEN Append(cl[h], "cleanup") ELSE cl[h]],
         closed |-> closed, failed |-> closed \cap failing]

\* The sweep of Stop that keeps a record whose plugin Close returned an error
StopAll_keepsFailed(hs, cl, failing) ==
    LET closed == {hs[id].Handle : id \in DOMAIN hs}
        kept == {id \in DOMAIN hs : hs[id].Handle \in failing}
    IN  [handles |-> [i \in kept |-> hs[i]],
         closes |-> [h \in DOMAIN cl |->
                        IF h \in closed THEN Append(cl[h], "Stop") ELSE cl[h]],
         closed |-> closed, failed |-> closed \cap failing]

\* The sweep of Stop, after hm.wg.Wait(); the error of mh.Handle.Close() is dropped.
\* failing: the plugin handles whose Close returns an error
StopAll(hs, cl, failing) ==
    LET closed == {hs[id].Handle : id \in DOMAIN hs}
    IN  [handles |-> [i \in {} |-> 0],
         closes |-> [h \in DOMAIN cl |->
                        IF h \in closed THEN Append(cl[h], "Stop") ELSE cl[h]],
         closed |-> closed, failed |-> closed \cap failing]

\* now.Before(mh.ExpiresAt)
Before(t, u) == t < u

\* List: the records with now.Before(mh.ExpiresAt), named by their ids; the
\* table is left as it is.
List(hs, t) == {id \in DOMAIN hs : Before(t, hs[id].ExpiresAt)}

\* Stop without hm.wg.Wait(): the sweep does not wait for cleanupLoop
WaitDone_noWait(lp) == TRUE

\* hm.wg.Wait() returns once cleanupLoop has returned
WaitDone(lp) == lp = "done"

\* ------------------------------------------------------------ FUSE bridge: data

\* Kernel threads driving the bridge
Threads == {1, 2}

\* A path is the sequence of its components; the mount root is the empty one.
Root == <<>>
Names == {"f", "g"}

\* filepath.Join(path, name)
Join(path, name) == Append(path, name)

\* filepath.Dir(path)
Dir(path) == IF path = <<>> THEN <<>> ELSE SubSeq(path, 1, Len(path) - 1)

Children == {Join(Root, name) : name \in Names}
NodePaths == {Root} \cup Children

\* FUSE handle ids: atomic.AddUint64(&hm.nextHandle, 1) with nextHandle starting at 1
FuseIds == 2..(MaxOpens + 1)

\* The server handle id granted to the open that got fuseHandle: ids are opaque,
\* the server grants each once.
AgfsHandle(fuseHandle) == 500 + fuseHandle
AgfsIds == {AgfsHandle(h) : h \in FuseIds}

\* The kinds of error the server answers with
ErrKinds == {"not-found", "already-exists", "is-directory", "not-directory",
             "permission-denied", "read-only", "invalid-argument", "not-supported",
             "internal"}
Answers == {"ok"} \cup ErrKinds

\* A thread outside Close, CloseAll and Create
Idle == [at |-> "idle", op |-> "none", h |-> 0, path |-> Root, agfs |-> {},
         kind |-> "ok"]

NoCall == [op |-> "none", t |-> 0, h |-> 0, path |-> Root, kind |-> "ok",
           res |-> "none", data |-> <<>>, rpcs |-> <<>>]

\* NewHandleManager and the empty caches of a new mount; the server holds a
\* two-byte file under every name.
BridgeInit ==
    /\ bridgeHandles = [h \in {} |-> 0]
    /\ nextHandle = 1
    /\ metaCache = [p \in {} |-> 0]
    /\ dirCache = [p \in {} |-> 0]
    /\ pc = [t \in Threads |-> Idle]
    /\ lastCall = NoCall
    /\ files = [p \in Children |-> <<1, 2>>]
    /\ closeSent = [a \in AgfsIds |-> 0]
    /\ readsSeen = {}

\* ------------------------------------------------------------ the table locks

\* A handler, seen from its table lock, is the sequence of statements that touch
\* the lock or call out of the package, one sequence for every way through the
\* handler.  A deferred Unlock is the last statement.

\* Calls of the bridge to the server (agfs.Client), and the one call of the
\* server's handle manager to a plugin (FileHandle.Close)
ClientCalls == {"OpenHandle", "CloseHandle", "ReadHandle", "Read", "WriteHandle",
                "Write", "SyncHandle"}
PluginCalls == {"Handle.Close"}

\* k times the same statement
Repeat(stmt, k) == [i \in 1..k |-> stmt]

\* fusefs: Open calls the server first and takes the lock for the table update.
FuseOpenLocks == {<<"OpenHandle", "Lock", "Unlock">>}

\* fusefs: Close removes the entry under the lock, then closes a REMOTE handle.
FuseCloseLocks == {<<"Lock", "Unlock">>, <<"Lock", "Unlock", "CloseHandle">>}

\* fusefs: Read of an unknown handle or from the buffer, of a REMOTE handle, of a
\* LOCAL handle whose first read fails, and of a LOCAL handle whose first read
\* is stored in the buffer under the lock taken again.
FuseReadLocks_deferred ==
    {<<"Lock", "Unlock">>, <<"Lock", "ReadHandle", "Unlock">>,
     <<"Lock", "Read", "Unlock">>}

FuseReadLocks ==
    {<<"Lock", "Unlock">>, <<"Lock", "Unlock", "ReadHandle">>,
     <<"Lock", "Unlock", "Read">>, <<"Lock", "Unlock", "Read", "Lock", "Unlock">>}

\* fusefs: Write of an unknown handle, of a REMOTE and of a LOCAL handle
FuseWriteLocks ==
    {<<"Lock", "Unlock">>, <<"Lock", "Unlock", "WriteHandle">>,
     <<"Lock", "Unlock", "Write">>}

\* fusefs: Sync of an unknown or LOCAL handle, and of a REMOTE handle
FuseSyncLocks == {<<"Lock", "Unlock">>, <<"Lock", "Unlock", "SyncHandle">>}

\* fusefs: CloseAll empties the table under the lock, then closes the REMOTE
\* handles one after the other.
FuseCloseAllLocks ==
    {<<"Lock", "Unlock">> \o Repeat("CloseHandle", k) : k \in 0..MaxOpens}

\* fusefs: Count
FuseCountLocks == {<<"RLock", "RUnlock">>}

FuseLocks ==
    FuseOpenLocks \cup FuseCloseLocks \cup FuseReadLocks \cup FuseWriteLocks
    \cup FuseSyncLocks \cup FuseCloseAllLocks \cup FuseCountLocks

\* filesystem: Register
RegisterLocks == {<<"Lock", "Unlock">>}

\* filesystem: Get of a live or unknown id, and of an expired id, whose plugin
\* handle it closes
GetLocks == {<<"Lock", "Unlock">>, <<"Lock", "Handle.Close", "Unlock">>}

\* filesystem: GetInfo, List and Count
GetInfoLocks == {<<"RLock", "RUnlock">>}

\* filesystem: Renew, as Get
RenewLocks == {<<"Lock", "Unlock">>, <<"Lock", "Handle.Close", "Unlock">>}

\* filesystem: Close of an unknown and of a known id
CloseLocks == {<<"Lock", "Unlock">>, <<"Lock", "Handle.Close", "Unlock">>}

\* filesystem: cleanup closes every expired handle
cleanupLocks ==
    {<<"Lock">> \o Repeat("Handle.Close", k) \o <<"Unlock">> : k \in 0..MaxHandles}

\* filesystem: Stop, after the cleanup goroutine has exited, closes every handle
StopLocks ==
    {<<"Lock">> \o Repeat("Handle.Close", k) \o <<"Unlock">> : k \in 0..MaxHandles}

ServerLocks ==
    RegisterLocks \cup GetLocks \cup GetInfoLocks \cup RenewLocks \cup CloseLocks
    \cup cleanupLocks \cup StopLocks

\* The two locks: hm.mu of package fusefs and hm.mu of package filesystem
Mutexes == {"fusefs", "filesystem"}
HandlersOf(mu) == IF mu = "fusefs" THEN FuseLocks ELSE ServerLocks

\* A goroutine in no handler
NoHandler == [mu |-> "none", stmts |-> <<>>, done |-> 0]

LockInit == lockPc = [t \in Threads |-> NoHandler]

\* The statement goroutine t is at: the one it is blocked on or is running
StmtAt(t) ==
    IF lockPc[t].done < Len(lockPc[t].stmts)
    THEN lockPc[t].stmts[lockPc[t].done + 1]
    ELSE "return"

\* How goroutine t holds the lock of its handler: the last of Lock, RLock,
\* Unlock and RUnlock among the statements it has completed
RECURSIVE HeldAfter(_, _)
HeldAfter(stmts, k) ==
    IF k = 0 THEN "no"
    ELSE IF stmts[k] = "Lock" THEN "write"
    ELSE IF stmts[k] = "RLock" THEN "read"
    ELSE IF stmts[k] \in {"Unlock", "RUnlock"} THEN "no"
    ELSE HeldAfter(stmts, k - 1)

Held(t) == HeldAfter(lockPc[t].stmts, lockPc[t].done)

\* The goroutines other than t that hold the lock t's handler uses
Holders(t, modes) ==
    {u \in Threads \ {t} : lockPc[u].mu = lockPc[t].mu /\ Held(u) \in modes}

Advance(t) ==
    /\ lockPc' = [lockPc EXCEPT ![t].done = @ + 1]
    /\ UNCHANGED <<hmVars, bridgeVars, v, plug, sym, reap>>

\* A goroutine enters a handler
Enter(t, mu, stmts) ==
    /\ lockPc[t] = NoHandler
    /\ lockPc' = [lockPc EXCEPT ![t] = [mu |-> mu, stmts |-> stmts, done |-> 0]]
    /\ UNCHANGED <<hmVars, bridgeVars, v, plug, sym, reap>>

\* sync.RWMutex.Lock: waits until nobody holds the lock
Lock(t) ==
    /\ StmtAt(t) = "Lock"
    /\ Holders(t, {"write", "read"}) = {}
    /\ Advance(t)

\* sync.RWMutex.RLock: waits until no writer holds the lock
RLock(t) ==
    /\ StmtAt(t) = "RLock"
    /\ Holders(t, {"write"}) = {}
    /\ Advance(t)

\* sync.RWMutex.Unlock and RUnlock
Unlock(t) ==
    /\ StmtAt(t) \in {"Unlock", "RUnlock"}
    /\ Advance(t)

\* The call the goroutine is in returns
CallReturns(t) ==
    /\ StmtAt(t) \in ClientCalls \cup PluginCalls
    /\ Advance(t)

\* The handler returns
Leave(t) ==
    /\ lockPc[t] # NoHandler
    /\ StmtAt(t) = "return"
    /\ lockPc' = [lockPc EXCEPT ![t] = NoHandler]
    /\ UNCHANGED <<hmVars, bridgeVars, v, plug, sym, reap>>

\* ------------------------------------------------------------ vectorfs: the index queue

\* Document files of one namespace, and what is written to them
FileNames == {"a", "b"}
Contents == {"", "x"}

\* hex(sha256(data)), and for empty data hex(sha256("empty:" + relativePath)):
\* the digest is the hash of a byte string, equal digests for equal strings.
Digest(fileName, data) ==
    <<"sha256">> \o (IF data = "" THEN <<"empty:", fileName>> ELSE <<data>>)

\* What a receive from the closed, empty channel yields
ZeroTask == [digest |-> <<>>, fileName |-> "", data |-> ""]

\* A worker between two tasks, and one that has returned
AtSelect == [at |-> "select", task |-> ZeroTask]
Exited == [at |-> "exit", task |-> ZeroTask]

Workers == 1..IndexWorkers

NoDid == [op |-> "none", out |-> "none", digest |-> <<>>, len |-> 0, shut |-> FALSE]

\* Initialize, with empty tables in the database
VectorInit ==
    v = [indexQueue |-> <<>>, closed |-> FALSE, shutdown |-> FALSE,
         indexingStatus |-> {}, workers |-> [w \in Workers |-> AtSelect],
         supervisors |-> <<>>, meta |-> [d \in {} |-> ""], chunks |-> [d \in {} |-> 0],
         shutdownPc |-> "idle", panicked |-> FALSE, writes |-> 0, did |-> NoDid]

\* s without its i-th element
Without(s, i) == SubSeq(s, 1, i - 1) \o SubSeq(s, i + 1, Len(s))

\* f without the keys in ks
Drop(f, ks) == [k \in DOMAIN f \ ks |-> f[k]]

\* tidbClient.DeleteFileByName: the digests stored under the name lose their
\* chunks and their metadata row.
DeleteFileByName(pl, fileName) ==
    LET digests == {d \in DOMAIN pl.meta : pl.meta[d] = fileName}
    IN  [pl EXCEPT !.chunks = Drop(@, digests), !.meta = Drop(@, digests)]

\* tidbClient.FileExists
FileExists(pl, digest) == digest \in DOMAIN pl.meta

\* tidbClient.InsertFileMetadata: file_digest is the primary key, a duplicate
\* key updates the row.
InsertFileMetadata(pl, digest, fileName) ==
    [pl EXCEPT !.meta = [d \in DOMAIN @ \cup {digest} |->
                            IF d = digest THEN fileName ELSE @[d]]]

\* tidbClient.InsertChunksBatch: the batch is one more copy of the digest's
\* chunks; chunk_id is the only key of the table.
InsertChunksBatch(pl, digest) ==
    [pl EXCEPT !.chunks = [d \in DOMAIN @ \cup {digest} |->
                              IF d \in DOMAIN @
                              THEN (IF d = digest THEN @[d] + 1 ELSE @[d])
                              ELSE 1]]

\* removeIndexingTask that leaves the marker where it is
removeIndexingTask_keeps(pl, digest) == pl

\* addIndexingTask and removeIndexingTask, for the one namespace
addIndexingTask(pl, digest) == [pl EXCEPT !.indexingStatus = @ \cup {digest}]
removeIndexingTask(pl, digest) == [pl EXCEPT !.indexingStatus = @ \ {digest}]

\* The select of Write: the send when the queue takes it, else the default
\* branch, which starts a goroutine that holds the task.  A send on the closed
\* channel panics.  "blocked" is a send that has to wait.
Enqueue_blocking(pl, task) ==
    IF pl.closed THEN [pl EXCEPT !.panicked = TRUE, !.did.out = "panic"]
    ELSE IF Len(pl.indexQueue) < QueueCap
    THEN [pl EXCEPT !.indexQueue = Append(@, task), !.did.out = "queued"]
    ELSE [pl EXCEPT !.did.out = "blocked"]

Enqueue(pl, task) ==
    IF pl.closed THEN [pl EXCEPT !.panicked = TRUE, !.did.out = "panic"]
    ELSE IF Len(pl.indexQueue) < QueueCap
    THEN [pl EXCEPT !.indexQueue = Append(@, task), !.did.out = "queued"]
    ELSE [pl EXCEPT !.supervisors = Append(@, task), !.did.out = "supervised"]

\* vectorFS.Write of data to docs/fileName, the database and the object store
\* answering every call
vectorFSWrite(pl, fileName, data) ==
    LET digest == Digest(fileName, data)
        task == [digest |-> digest, fileName |-> fileName, data |-> data]
        deleted == DeleteFileByName(pl, fileName)
        alreadyExists == FileExists(deleted, digest)
        prepared == [InsertFileMetadata(deleted, digest, fileName) EXCEPT
                        !.writes = @ + 1,
                        !.did = [op |-> "Write", out |-> "exists", digest |-> digest,
                                 len |-> Len(pl.indexQueue), shut |-> pl.shutdown]]
    IN  IF alreadyExists THEN prepared
        ELSE Enqueue(addIndexingTask(prepared, digest), task)

\* Indexer.IndexChunks followed by removeIndexingTask, as the worker runs them:
\* empty content is skipped, the embedding service or the database may fail.
IndexChunks(pl, task, failed) ==
    IF task.data = "" \/ failed THEN pl ELSE InsertChunksBatch(pl, task.digest)

\* ------------------------------------------------------------ file plugins

\* What is written to a file: the i-th byte is i, so that no byte is the zero
\* byte a file is padded with.
Docs == {[i \in 1..n |-> i] : n \in 0..(MaxSize - 1)}

\* What a call of a plugin returns: the error ("ok" for nil), the bytes, whether
\* the slice is nil, and the bytes the file holds after the call
Returned(err, data, isNil, content) ==
    [err |-> err, data |-> data, isNil |-> isNil, content |-> content]

\* DevFS.Read
DevFSRead_empty(path, offset, size) ==
    IF path = "/null" THEN Returned("ok", <<>>, FALSE, <<>>)
    ELSE Returned("not-found", <<>>, TRUE, <<>>)

DevFSRead(path, offset, size) ==
    IF path = "/null" THEN Returned("EOF", <<>>, TRUE, <<>>)
    ELSE Returned("not-found", <<>>, TRUE, <<>>)

\* DevFS.Chmod
DevFSChmod_noop(path, mode) == Returned("ok", <<>>, TRUE, <<>>)

DevFSChmod(path, mode) == Returned("read-only filesystem", <<>>, TRUE, <<>>)

\* DevFS.Truncate
DevFSTruncate(path, size) ==
    IF path = "/null" THEN Returned("ok", <<>>, TRUE, <<>>)
    ELSE Returned("read-only filesystem", <<>>, TRUE, <<>>)

\* sqlfs2FS.Chmod
sqlfs2Chmod(path, mode) == Returned("operation not supported: chmod", <<>>, TRUE, <<>>)

\* vectorFS.Chmod and vectorFS.Truncate, on a document that holds content
vectorFSChmod(content, mode) == Returned("ok", <<>>, TRUE, content)

\* The first size bytes of content, padded with zero bytes up to size
Resized(content, size) ==
    [i \in 1..size |-> IF i <= Len(content) THEN content[i] ELSE 0]

vectorFSTruncate_cuts(content, size) == Returned("ok", <<>>, TRUE, Resized(content, size))

vectorFSTruncate(content, size) == Returned("ok", <<>>, TRUE, content)

\* vectorFS.Read(path, 0, -1) of a document: the whole of it
vectorFSRead(content) == Returned("ok", content, FALSE, content)

\* S3FS.Truncate and S3FS.Read(path, 0, -1) of an object
S3FSTruncate(content, size) == Returned("ok", <<>>, TRUE, Resized(content, size))
S3FSRead(content) == Returned("ok", content, FALSE, content)

\* The plugins with a stored file, and those with a fixed one
Stores == {"vectorfs", "s3fs"}
DevPaths == {"/null", "/nonexistent"}

\* The call before the last one when that was a Truncate, in short
NoPrev == [fs |-> "none", op |-> "none", path |-> "", size |-> 0, before |-> <<>>,
           err |-> "ok"]

NoPlug == [fs |-> "none", op |-> "none", path |-> "", offset |-> 0, size |-> 0,
           before |-> <<>>, ret |-> Returned("ok", <<>>, TRUE, <<>>), prev |-> NoPrev]

PlugInit == plug = [files |-> [fs \in Stores |-> <<>>], did |-> NoPlug]

\* ------------------------------------------------------------ symlink overlay

\* Links followed by one resolution at most
MaxDepth == 8

\* Two mounts, /a and /b, with the entries 1, 2, ... alternating between them:
\* enough entries for a chain of MaxDepth + 1 links that ends in a file.
NumNodes == MaxDepth + 2
NodePath(k) == <<IF k % 2 = 1 THEN "a" ELSE "b", k>>

\* A target is absolute, or relative to the parent of the link.
Absolute(path) == [abs |-> TRUE, path |-> path]
Relative(path) == [abs |-> FALSE, path |-> path]

\* The targets entry k is linked to: the next entry, which is on the other
\* mount, and for some entries the entry before the last one, by its name.
TargetsOf(k) ==
    (IF k < NumNodes THEN {Absolute(NodePath(k + 1))} ELSE {})
    \cup (IF k \in {3, NumNodes} THEN {Relative(<<k - 2>>)} ELSE {})

\* The paths that are resolved: an entry, or a name below it
Queries == {NodePath(k) : k \in 1..NumNodes} \cup {NodePath(k) \o <<"x">> : k \in 1..NumNodes}

\* The prefixes of path that are symlinks, by their length
LinkPrefixes(table, path) ==
    {n \in 1..Len(path) : SubSeq(path, 1, n) \in DOMAIN table}

\* path with its prefix of length n replaced by the target of that prefix
Substitute(table, path, n) ==
    LET link == SubSeq(path, 1, n)
        target == table[link]
    IN  (IF target.abs THEN target.path ELSE Dir(link) \o target.path)
        \o SubSeq(path, n + 1, Len(path))

\* The walk from the root: the first component that is a symlink restarts the
\* walk with the target put in its place, MaxDepth times at most.
RECURSIVE Resolve_nine(_, _, _)
Resolve_nine(table, path, depth) ==
    LET hits == LinkPrefixes(table, path)
    IN  IF hits = {} THEN [err |-> "ok", path |-> path, hops |-> depth]
        ELSE IF depth > MaxDepth
        THEN [err |-> "symlink-loop", path |-> path, hops |-> depth]
        ELSE Resolve_nine(table,
                          Substitute(table, path, CHOOSE n \in hits : \A m \in hits : n <= m),
                          depth + 1)

RECURSIVE Resolve(_, _, _)
Resolve(table, path, depth) ==
    LET hits == LinkPrefixes(table, path)
    IN  IF hits = {} THEN [err |-> "ok", path |-> path, hops |-> depth]
        ELSE IF depth = MaxDepth
        THEN [err |-> "symlink-loop", path |-> path, hops |-> depth]
        ELSE Resolve(table,
                     Substitute(table, path, CHOOSE n \in hits : \A m \in hits : n <= m),
                     depth + 1)

NoResolve == [op |-> "none", path |-> <<>>, ret |-> [err |-> "ok", path |-> <<>>, hops |-> 0]]

SymInit == sym = [links |-> [p \in {} |-> 0], did |-> NoResolve]

\* ------------------------------------------------------------ handle manager: statements
\* Get, Renew and cleanup of package filesystem once more, now as the
\* statements a goroutine runs one after the other, so that the statements of
\* two goroutines interleave wherever hm.mu lets them.

\* The goroutine of cleanupLoop and a goroutine serving a client
Clients == {"c1"}
Goroutines == {"cleanupLoop"} \cup Clients

\* What a handler does first: hm.mu.Lock(), with the Unlock deferred to its return.
\* cleanup that ranges over the table without taking the lock
MutexOf_cleanupUnlocked(op) == IF op = "cleanup" THEN "none" ELSE "Lock"

MutexOf(op) == "Lock"

\* A goroutine in no handler; mh is the record the handler looked up, and seen
\* the ExpiresAt it compared with now
NoMh == [id |-> 0, Handle |-> 0, seen |-> 0]
Resting == [op |-> "none", pc |-> "idle", id |-> 0, lease |-> 0, now |-> 0,
            todo |-> {}, mh |-> NoMh]

NoStmt == [who |-> "none", op |-> "none", stmt |-> "none", res |-> "none", val |-> 0,
           refreshed |-> FALSE, others |-> {}]

ReapInit ==
    reap = [mu |-> "free", handles |-> [i \in {} |-> 0], clock |-> 0, closed |-> {},
            issued |-> 0, g |-> [t \in Goroutines |-> Resting], did |-> NoStmt]

\* The goroutines other than t that are inside a handler's body
InBody(r, t) == {u \in Goroutines \ {t} : r.g[u].pc \notin {"idle", "Lock"}}

\* The statement just run
Ran(r, t, stmt, res, val, refreshed) ==
    [who |-> t, op |-> r.g[t].op, stmt |-> stmt, res |-> res, val |-> val,
     refreshed |-> refreshed, others |-> InBody(r, t)]

\* The record mh points to has been changed or removed since the expiry check
Refreshed(r, mh) ==
    \/ mh.id \notin DOMAIN r.handles
    \/ r.handles[mh.id].ExpiresAt # mh.seen

\* hm.mu.Lock() followed by now := time.Now(); cleanup then starts its range
\* over the table
lockStmt(r, t) ==
    [r EXCEPT !.mu = IF MutexOf(r.g[t].op) = "Lock" THEN t ELSE @,
              !.g[t].pc = IF r.g[t].op = "cleanup" THEN "range" ELSE "lookup",
              !.g[t].now = r.clock,
              !.g[t].todo = IF r.g[t].op = "cleanup" THEN DOMAIN r.handles ELSE {},
              !.did = Ran(r, t, "Lock", "none", 0, FALSE)]

\* cleanup: one turn of the range loop with its test now.After(mh.ExpiresAt); a
\* key deleted before the loop reaches it is not produced
rangeStmt(r, t, id) ==
    IF After(r.g[t].now, r.handles[id].ExpiresAt)
    THEN [r EXCEPT !.g[t].pc = "Close",
                   !.g[t].mh = [id |-> id, Handle |-> r.handles[id].Handle,
                                seen |-> r.handles[id].ExpiresAt],
                   !.did = Ran(r, t, "range", "expired", id, FALSE)]
    ELSE [r EXCEPT !.g[t].todo = @ \ {id},
                   !.did = Ran(r, t, "range", "live", id, FALSE)]

\* Get and Renew: mh, exists := hm.handles[id] and the test now.After(mh.ExpiresAt)
lookupStmt(r, t) ==
    LET id == r.g[t].id
    IN  IF id \notin DOMAIN r.handles
        THEN [r EXCEPT !.g[t].pc = "Unlock",
                       !.did = Ran(r, t, "lookup", "notfound", 0, FALSE)]
        ELSE LET mh == [id |-> id, Handle |-> r.handles[id].Handle,
                        seen |-> r.handles[id].ExpiresAt]
             IN  IF After(r.g[t].now, r.handles[id].ExpiresAt)
                 THEN [r EXCEPT !.g[t].pc = "Close", !.g[t].mh = mh,
                                !.did = Ran(r, t, "lookup", "expired", id, FALSE)]
                 ELSE [r EXCEPT !.g[t].pc = "refresh", !.g[t].mh = mh,
                                !.did = Ran(r, t, "lookup", "live", id, FALSE)]

\* mh.Handle.Close()
closeStmt(r, t) ==
    [r EXCEPT !.closed = @ \cup {r.g[t].mh.Handle},
              !.g[t].pc = "delete",
              !.did = Ran(r, t, "Close", "none", r.g[t].mh.Handle,
                          Refreshed(r, r.g[t].mh))]

\* delete(hm.handles, id); cleanup goes on with its range, Get and Renew return
\* ErrNotFound
deleteStmt(r, t) ==
    [r EXCEPT !.handles = delete(@, r.g[t].mh.id),
              !.g[t].todo = @ \ {r.g[t].mh.id},
              !.g[t].pc = IF r.g[t].op = "cleanup" THEN "range" ELSE "Unlock",
              !.did = Ran(r, t, "delete", "notfound", 0, FALSE)]

\* Get: mh.ExpiresAt = now.Add(mh.LeaseTime), return mh.Handle.  Renew: the
\* lease is validated and capped first, and the new ExpiresAt is returned.  The
\* assignment goes through the pointer mh, into the record whether or not the
\* table still holds it.
refreshStmt(r, t) ==
    LET id == r.g[t].id
        held == id \in DOMAIN r.handles /\ r.handles[id].Handle = r.g[t].mh.Handle
        old == IF held THEN r.handles[id].LeaseTime ELSE DefaultLease
        l1 == IF r.g[t].lease <= 0 THEN old ELSE r.g[t].lease
        l2 == IF l1 > MaxLease THEN MaxLease ELSE l1
        lease == IF r.g[t].op = "Renew" THEN l2 ELSE old
        expiresAt == r.g[t].now + lease
    IN  [r EXCEPT !.handles = IF held
                              THEN [@ EXCEPT ![id].LeaseTime = lease,
                                             ![id].ExpiresAt = expiresAt,
                                             ![id].LastAccess = r.g[t].now]
                              ELSE @,
                  !.g[t].pc = "Unlock",
                  !.did = IF r.g[t].op = "Renew"
                          THEN Ran(r, t, "refresh", "ok", expiresAt, FALSE)
                          ELSE Ran(r, t, "refresh", "ok", r.g[t].mh.Handle, FALSE)]

\* The deferred hm.mu.Unlock(), and the return
unlockStmt(r, t) ==
    [r EXCEPT !.mu = IF @ = t THEN "free" ELSE @,
              !.g[t] = Resting,
              !.did = Ran(r, t, "Unlock", "none", 0, FALSE)]

\* ------------------------------------------------------------ state machine

Init ==
    /\ BridgeInit
    /\ LockInit
    /\ VectorInit
    /\ PlugInit
    /\ SymInit
    /\ ReapInit
    /\ handles = [i \in {} |-> 0]
    /\ now = 0
    /\ stopCh = "open"
    /\ loopPc = "select"
    /\ stopPc = "idle"
    /\ last = NoStep
    /\ closes = [h \in PluginHandles |-> <<>>]
    /\ registered = <<>>

\* ids a client can present: 0 was never issued, the others were returned by Register
KnownIds == 0..Len(registered)

\* Register and Renew read their lease argument only on the path that grants a
\* lease; a call that returns an error before that is recorded with lease 0.
Used(lease, res) == IF res = "ok" THEN lease ELSE 0

StepFailed(op, id, lease, res, val, closed, failed) ==
    last' = [op |-> op, id |-> id, lease |-> lease, res |-> res, val |-> val,
             closed |-> closed, failed |-> failed]

\* A step in which no plugin Close returned an error
Step(op, id, lease, res, val, closed) == StepFailed(op, id, lease, res, val, closed, {})

\* The plugin handle the dispatcher has just opened: handles are opaque, so the
\* one offered for the k-th registration is named 100 + k.
NewHandle == 100 + Len(registered) + 1

\* The plugin handles held by the records in the table
InTable == {handles[id].Handle : id \in DOMAIN handles}

\* A client thread runs Register(handle, path, flags, lease) with a newly opened handle.
DoRegister(h, lease) ==
    /\ now < Horizon
    /\ Len(registered) < MaxRegs \/ Cardinality(DOMAIN handles) >= MaxHandles
    /\ h = NewHandle
    /\ LET out == Register(handles, registered, h, lease, now)
       IN  /\ handles' = out.handles
           /\ registered' = out.registered
           /\ Step("Register", out.id, Used(lease, out.res), out.res, out.val, {})
    /\ UNCHANGED <<now, stopCh, loopPc, stopPc, closes, bridgeVars, moreVars>>

DoGet(id) ==
    /\ now < Horizon
    /\ LET out == Get(handles, closes, id, now)
       IN  /\ handles' = out.handles
           /\ closes' = out.closes
           /\ Step("Get", id, 0, out.res, out.val, out.closed)
    /\ UNCHANGED <<now, stopCh, loopPc, stopPc, registered, bridgeVars, moreVars>>

\* GetInfo that refreshes the lease, and reaps an expired record, as Get does
DoGetInfo_refreshes(id) ==
    /\ now < Horizon
    /\ LET out == GetInfo(handles, id, now)
           got == Get(handles, closes, id, now)
       IN  /\ handles' = got.handles
           /\ closes' = got.closes
           /\ Step("GetInfo", id, 0, out.res, out.val, {})
    /\ UNCHANGED <<now, stopCh, loopPc, stopPc, registered, bridgeVars, moreVars>>

\* GetInfo runs under hm.mu.RLock() and writes nothing.
DoGetInfo(id) ==
    /\ now < Horizon
    /\ LET out == GetInfo(handles, id, now)
       IN  Step("GetInfo", id, 0, out.res, out.val, {})
    /\ UNCHANGED <<handles, now, stopCh, loopPc, stopPc, closes, registered, bridgeVars, moreVars>>

DoRenew(id, lease) ==
    /\ now < Horizon
    /\ LET out == Renew(handles, closes, id, lease, now)
       IN  /\ handles' = out.handles
           /\ closes' = out.closes
           /\ Step("Renew", id, Used(lease, out.res), out.res, out.val, out.closed)
    /\ UNCHANGED <<now, stopCh, loopPc, stopPc, registered, bridgeVars, moreVars>>

DoClose(id, failed) ==
    /\ now < Horizon
    /\ LET out == Close(handles, closes, id, failed)
       IN  /\ handles' = out.handles
           /\ closes' = out.closes
           /\ StepFailed("Close", id, 0, out.res, 0, out.closed,
                         IF out.res = "error" THEN out.closed ELSE {})
    /\ UNCHANGED <<now, stopCh, loopPc, stopPc, registered, bridgeVars, moreVars>>

\* cleanupLoop, case <-ticker.C
LoopTick ==
    /\ loopPc = "select"
    /\ \E failing \in SUBSET InTable :
         LET out == cleanup(handles, closes, now, failing)
         IN  /\ handles' = out.handles
             /\ closes' = out.closes
             /\ StepFailed("cleanup", 0, 0, "none", 0, out.closed, out.failed)
    /\ UNCHANGED <<now, stopCh, loopPc, stopPc, registered, bridgeVars, moreVars>>

\* cleanupLoop, case <-hm.stopCh
LoopStop ==
    /\ loopPc = "select"
    /\ stopCh = "closed"
    /\ loopPc' = "done"
    /\ Step("cleanupLoop", 0, 0, "none", 0, {})
    /\ UNCHANGED <<handles, now, stopCh, stopPc, closes, registered, bridgeVars, moreVars>>

\* Stop: close(hm.stopCh)
StopClose ==
    /\ stopPc = "idle"
    /\ stopCh' = "closed"
    /\ stopPc' = "wait"
    /\ Step("close(stopCh)", 0, 0, "none", 0, {})
    /\ UNCHANGED <<handles, now, loopPc, closes, registered, bridgeVars, moreVars>>

\* Stop: hm.wg.Wait(), then the sweep under hm.mu
StopSweep ==
    /\ stopPc = "wait"
    /\ WaitDone(loopPc)
    /\ \E failing \in SUBSET InTable :
         LET out == StopAll(handles, closes, failing)
         IN  /\ handles' = out.handles
             /\ closes' = out.closes
             /\ StepFailed("Stop", 0, 0, "none", 0, out.closed, out.failed)
    /\ stopPc' = "done"
    /\ UNCHANGED <<now, stopCh, loopPc, registered, bridgeVars, moreVars>>

\* The clock advances.
Tick ==
    /\ now < MaxTime
    /\ now' = now + 1
    /\ Step("Tick", 0, 0, "none", 0, {})
    /\ UNCHANGED <<handles, stopCh, loopPc, stopPc, closes, registered, bridgeVars, moreVars>>

Next ==
    \/ \E h \in PluginHandles, l \in LeaseInputs : DoRegister(h, l)
    \/ \E id \in KnownIds : DoGet(id)
    \/ \E id \in KnownIds : DoGetInfo(id)
    \/ \E id \in KnownIds, l \in LeaseInputs : DoRenew(id, l)
    \/ \E id \in KnownIds, failed \in BOOLEAN : DoClose(id, failed)
    \/ LoopTick
    \/ LoopStop
    \/ StopClose
    \/ StopSweep
    \/ Tick

Spec == Init /\ [][Next]_vars

\* List; what it returns is kept in last.val
DoList ==
    /\ now < Horizon
    /\ Step("List", 0, 0, "ok", List(handles, now), {})
    /\ UNCHANGED <<handles, now, stopCh, loopPc, stopPc, closes, registered, bridgeVars, moreVars>>

\* The manager asked by clients that register, look up and list handles
ListNext ==
    \/ \E h \in PluginHandles, l \in LeaseInputs : DoRegister(h, l)
    \/ \E id \in KnownIds : DoGet(id)
    \/ \E id \in KnownIds : DoGetInfo(id)
    \/ DoList
    \/ Tick

ListSpec == Init /\ [][ListNext]_vars

\* The manager while Stop is not called, with a clock and a ticker that keep going.
NextLive ==
    \/ \E h \in PluginHandles, l \in LeaseInputs : DoRegister(h, l)
    \/ \E id \in KnownIds : DoGet(id)
    \/ \E id \in KnownIds : DoGetInfo(id)
    \/ \E id \in KnownIds, l \in LeaseInputs : DoRenew(id, l)
    \/ \E id \in KnownIds, failed \in BOOLEAN : DoClose(id, failed)
    \/ LoopTick
    \/ Tick

LiveSpec == Init /\ [][NextLive]_vars /\ WF_vars(Tick) /\ WF_vars(LoopTick)

\* ------------------------------------------------------------ FUSE bridge: handles.go
\* Each handler maps the table and its arguments, with the server's answer to
\* the call it makes, to the table it leaves, what it returns and the calls it
\* sent to the server.

\* One call of the agfs client
Rpc(name, path, h, offset, size, data) ==
    [rpc |-> name, path |-> path, h |-> h, offset |-> offset, size |-> size,
     data |-> data]

\* data[offset:end] with end cut at len(data), empty from len(data) on
Slice(data, offset, size) ==
    IF offset >= Len(data)
    THEN <<>>
    ELSE LET end == IF offset + size > Len(data) THEN Len(data) ELSE offset + size
         IN  SubSeq(data, offset + 1, end)

\* The orders in which a range over a map can visit the keys in S
Orders(S) ==
    {o \in [1..Cardinality(S) -> S] : \A i, j \in DOMAIN o : i # j => o[i] # o[j]}

\* Open that falls back to a local handle on every error of the server
FuseOpen_localOnAnyError(hs, next, path, answer) ==
    LET fuseHandle == next + 1
    IN  IF answer # "ok"
        THEN [handles |-> put(hs, fuseHandle, [htype |-> "local", agfsHandle |-> 0,
                                               path |-> path, readBuffer |-> <<>>]),
              nextHandle |-> fuseHandle, res |-> "ok", h |-> fuseHandle]
        ELSE [handles |-> put(hs, fuseHandle, [htype |-> "remote",
                                               agfsHandle |-> AgfsHandle(fuseHandle),
                                               path |-> path, readBuffer |-> <<>>]),
              nextHandle |-> fuseHandle, res |-> "ok", h |-> fuseHandle]

\* answer: what the server said to OpenHandle(path, flags, mode).
\* readBuffer is <<>> for nil and <<data>> once the payload is cached.
FuseOpen(hs, next, path, answer) ==
    LET fuseHandle == next + 1
    IN  IF answer = "not-supported"
        THEN [handles |-> put(hs, fuseHandle, [htype |-> "local", agfsHandle |-> 0,
                                               path |-> path, readBuffer |-> <<>>]),
              nextHandle |-> fuseHandle, res |-> "ok", h |-> fuseHandle]
        ELSE IF answer # "ok"
        THEN [handles |-> hs, nextHandle |-> fuseHandle, res |-> "error", h |-> 0]
        ELSE [handles |-> put(hs, fuseHandle, [htype |-> "remote",
                                               agfsHandle |-> AgfsHandle(fuseHandle),
                                               path |-> path, readBuffer |-> <<>>]),
              nextHandle |-> fuseHandle, res |-> "ok", h |-> fuseHandle]

\* The locked part of Close that looks the handle up and leaves it in the table
FuseCloseLocked_keeps(hs, fuseHandle) ==
    IF fuseHandle \notin DOMAIN hs
    THEN [handles |-> hs, found |-> FALSE, agfs |-> {}]
    ELSE [handles |-> hs, found |-> TRUE,
          agfs |-> IF hs[fuseHandle].htype = "remote"
                   THEN {hs[fuseHandle].agfsHandle} ELSE {}]

\* Close, the part under hm.mu: look up and delete. agfs holds the server
\* handle still to be closed, if the record was a remote one.
FuseCloseLocked(hs, fuseHandle) ==
    IF fuseHandle \notin DOMAIN hs
    THEN [handles |-> hs, found |-> FALSE, agfs |-> {}]
    ELSE [handles |-> delete(hs, fuseHandle), found |-> TRUE,
          agfs |-> IF hs[fuseHandle].htype = "remote"
                   THEN {hs[fuseHandle].agfsHandle} ELSE {}]

\* CloseAll, the part under hm.mu: copy the table and replace it by an empty one
FuseCloseAllLocked(hs) ==
    [handles |-> [h \in {} |-> 0],
     agfs |-> {hs[h].agfsHandle : h \in {x \in DOMAIN hs : hs[x].htype = "remote"}}]

\* The server receives CloseHandle for the handles in agfs
CloseHandles(sent, agfs) ==
    [a \in DOMAIN sent |-> IF a \in agfs THEN sent[a] + 1 ELSE sent[a]]

\* Read for a local handle that fetches from the server on every call
FuseRead_noBuffer(hs, fs, fuseHandle, offset, size, answer) ==
    IF fuseHandle \notin DOMAIN hs
    THEN [handles |-> hs, res |-> "error", data |-> <<>>, rpcs |-> <<>>]
    ELSE LET info == hs[fuseHandle]
         IN  IF info.htype = "remote"
             THEN [handles |-> hs,
                   res |-> IF answer = "ok" THEN "ok" ELSE "error",
                   data |-> IF answer = "ok" THEN Slice(fs[info.path], offset, size)
                            ELSE <<>>,
                   rpcs |-> <<Rpc("ReadHandle", Root, info.agfsHandle, offset, size, <<>>)>>]
             ELSE IF answer # "ok"
                  THEN [handles |-> hs, res |-> "error", data |-> <<>>,
                        rpcs |-> <<Rpc("Read", info.path, 0, 0, -1, <<>>)>>]
                  ELSE [handles |-> [hs EXCEPT ![fuseHandle].readBuffer = <<fs[info.path]>>],
                        res |-> "ok",
                        data |-> Slice(fs[info.path], offset, size),
                        rpcs |-> <<Rpc("Read", info.path, 0, 0, -1, <<>>)>>]

\* fs: the files of the server; answer: what the server said to the read.
\* The calls of one handle come one after another, so the handle is still in
\* the table when the payload is stored.
FuseRead(hs, fs, fuseHandle, offset, size, answer) ==
    IF fuseHandle \notin DOMAIN hs
    THEN [handles |-> hs, res |-> "error", data |-> <<>>, rpcs |-> <<>>]
    ELSE LET info == hs[fuseHandle]
         IN  IF info.htype = "remote"
             THEN [handles |-> hs,
                   res |-> IF answer = "ok" THEN "ok" ELSE "error",
                   data |-> IF answer = "ok" THEN Slice(fs[info.path], offset, size)
                            ELSE <<>>,
                   rpcs |-> <<Rpc("ReadHandle", Root, info.agfsHandle, offset, size, <<>>)>>]
             ELSE IF info.readBuffer = <<>>
             THEN IF answer # "ok"
                  THEN [handles |-> hs, res |-> "error", data |-> <<>>,
                        rpcs |-> <<Rpc("Read", info.path, 0, 0, -1, <<>>)>>]
                  ELSE [handles |-> [hs EXCEPT ![fuseHandle].readBuffer = <<fs[info.path]>>],
                        res |-> "ok",
                        data |-> Slice(fs[info.path], offset, size),
                        rpcs |-> <<Rpc("Read", info.path, 0, 0, -1, <<>>)>>]
             ELSE [handles |-> hs, res |-> "ok",
                   data |-> Slice(info.readBuffer[1], offset, size),
                   rpcs |-> <<>>]

\* Write for a local handle that keeps the bytes of the call back: nothing is
\* sent to the server
FuseWrite_deferred(hs, fuseHandle, data, offset, answer) ==
    IF fuseHandle \notin DOMAIN hs
    THEN [res |-> "error", rpcs |-> <<>>]
    ELSE LET info == hs[fuseHandle]
         IN  IF info.htype = "remote"
             THEN [res |-> IF answer = "ok" THEN "ok" ELSE "error",
                   rpcs |-> <<Rpc("WriteHandle", Root, info.agfsHandle, offset, 0, data)>>]
             ELSE [res |-> "ok", rpcs |-> <<>>]

\* answer: what the server said to the write
FuseWrite(hs, fuseHandle, data, offset, answer) ==
    IF fuseHandle \notin DOMAIN hs
    THEN [res |-> "error", rpcs |-> <<>>]
    ELSE LET info == hs[fuseHandle]
         IN  IF info.htype = "remote"
             THEN [res |-> IF answer = "ok" THEN "ok" ELSE "error",
                   rpcs |-> <<Rpc("WriteHandle", Root, info.agfsHandle, offset, 0, data)>>]
             ELSE [res |-> IF answer = "ok" THEN "ok" ELSE "error",
                   rpcs |-> <<Rpc("Write", info.path, 0, 0, 0, data)>>]

FuseSync(hs, fuseHandle, answer) ==
    IF fuseHandle \notin DOMAIN hs
    THEN [res |-> "error", rpcs |-> <<>>]
    ELSE LET info == hs[fuseHandle]
         IN  IF info.htype = "remote"
             THEN [res |-> IF answer = "ok" THEN "ok" ELSE "error",
                   rpcs |-> <<Rpc("SyncHandle", Root, info.agfsHandle, 0, 0, <<>>)>>]
             ELSE [res |-> "ok", rpcs |-> <<>>]

\* ------------------------------------------------------------ FUSE bridge: server and caches

\* The plugin write behind client.Write(path, data) replaces the content.
ServerWrite(fs, path, data) == [fs EXCEPT ![path] = data]

\* The write behind client.WriteHandle(id, data, offset) overwrites at offset.
ServerWriteHandle(fs, path, data, offset) ==
    LET old == fs[path]
        n == IF Len(old) > offset + Len(data) THEN Len(old) ELSE offset + Len(data)
    IN  [fs EXCEPT ![path] =
            [i \in 1..n |-> IF i > offset /\ i <= offset + Len(data)
                            THEN data[i - offset]
                            ELSE IF i <= Len(old) THEN old[i] ELSE 0]]

\* cache.Get(path) finds an entry
CacheHit(cache, path) == path \in DOMAIN cache

\* cache.Set(path, info): the entry is as new as the server's answer
CacheSet(cache, path) == put(cache, path, FALSE)

\* cache.Invalidate(path)
Invalidate(cache, path) == delete(cache, path)

\* root.invalidateCache(path): the attributes of path and the listing of its parent
invalidateCache(mc, dc, path) ==
    [meta |-> Invalidate(mc, path), dir |-> Invalidate(dc, Dir(path))]

\* The entries under keys that are in the cache are from now on older than a
\* successful mutating operation.
Outdated(cache, keys) ==
    [k \in DOMAIN cache |-> IF k \in keys THEN TRUE ELSE cache[k]]

\* The caches after a mutating operation on the paths in ps has succeeded
Mutated(mc, dc, ps) ==
    [meta |-> Outdated(mc, ps), dir |-> Outdated(dc, {Dir(p) : p \in ps})]

\* ------------------------------------------------------------ FUSE bridge: steps

Call(op, t, h, path, kind, res, data, rpcs) ==
    lastCall' = [op |-> op, t |-> t, h |-> h, path |-> path, kind |-> kind,
                 res |-> res, data |-> data, rpcs |-> rpcs]

\* FUSE handle ids the kernel can present: 1 was never issued
KnownFuse == 1..nextHandle

PathOf(h) == IF h \in DOMAIN bridgeHandles THEN bridgeHandles[h].path ELSE Root

\* The server's answer as far as a step depended on it
Heard(answer, rpcs) == IF rpcs = <<>> THEN "ok" ELSE answer

\* AGFSNode.Open: handles.Open, EIO on any error
DoOpen(t, path, answer) ==
    /\ pc[t] = Idle
    /\ nextHandle <= MaxOpens
    /\ LET out == FuseOpen(bridgeHandles, nextHandle, path, answer)
       IN  /\ bridgeHandles' = out.handles
           /\ nextHandle' = out.nextHandle
           /\ Call("Open", t, out.h, path, answer,
                   IF out.res = "ok" THEN "ok" ELSE "EIO", <<>>,
                   <<Rpc("OpenHandle", path, 0, 0, 0, <<>>)>>)
    /\ UNCHANGED <<metaCache, dirCache, pc, files, closeSent, readsSeen, hmVars, moreVars>>

\* handles.Read(fuseHandle, offset, size)
DoRead(t, h, offset, size, answer) ==
    /\ pc[t] = Idle
    /\ LET out == FuseRead(bridgeHandles, files, h, offset, size, answer)
       IN  /\ bridgeHandles' = out.handles
           /\ readsSeen' = IF h \in DOMAIN bridgeHandles THEN readsSeen \cup {h}
                            ELSE readsSeen
           /\ Call("Read", t, h, PathOf(h), Heard(answer, out.rpcs), out.res, out.data,
                   out.rpcs)
    /\ UNCHANGED <<nextHandle, metaCache, dirCache, pc, files, closeSent, hmVars, moreVars>>

\* Read called by several kernel threads at once.  Read holds hm.mu while it
\* looks the handle up and lets go of it before it calls the server; for the
\* first read of a local handle it takes the lock again to keep the payload.

\* The first part of Read under the lock finds a local handle without a payload
FirstRead(hs, fuseHandle) ==
    /\ fuseHandle \in DOMAIN hs
    /\ hs[fuseHandle].htype = "local"
    /\ hs[fuseHandle].readBuffer = <<>>

\* The second part of Read under the lock: the handle is looked up again and
\* the payload is stored if it is still there
FuseReadStore(hs, fuseHandle, data) ==
    IF fuseHandle \in DOMAIN hs
    THEN [hs EXCEPT ![fuseHandle].readBuffer = <<data>>]
    ELSE hs

\* Read up to the first hm.mu.Unlock(), on its way to client.Read(path, 0, -1)
ReadStart(t, h) ==
    /\ pc[t] = Idle
    /\ FirstRead(bridgeHandles, h)
    /\ pc' = [pc EXCEPT ![t] = [at |-> "call", op |-> "Read", h |-> h,
                                path |-> PathOf(h), agfs |-> {}, kind |-> "ok",
                                data |-> <<>>]]
    /\ readsSeen' = readsSeen \cup {h}
    /\ Call("Read.locked", t, h, PathOf(h), "ok", "none", <<>>, <<>>)
    /\ UNCHANGED <<bridgeHandles, nextHandle, metaCache, dirCache, files, closeSent,
                   hmVars, moreVars>>

\* Every other read touches the table once and is one step
ReadAtOnce(t, h, offset, size, answer) ==
    /\ ~FirstRead(bridgeHandles, h)
    /\ DoRead(t, h, offset, size, answer)

\* client.Read(path, 0, -1): the server answers with the content the file has now
ReadFetch(t, answer) ==
    /\ pc[t].at = "call"
    /\ pc[t].op = "Read"
    /\ IF answer = "ok"
       THEN /\ pc' = [pc EXCEPT ![t].at = "store", ![t].data = files[pc[t].path]]
            /\ Call("Read.call", t, pc[t].h, pc[t].path, answer, "none", <<>>,
                    <<Rpc("Read", pc[t].path, 0, 0, -1, <<>>)>>)
       ELSE /\ pc' = [pc EXCEPT ![t] = Idle]
            /\ Call("Read", t, pc[t].h, pc[t].path, answer, "error", <<>>,
                    <<Rpc("Read", pc[t].path, 0, 0, -1, <<>>)>>)
    /\ UNCHANGED <<bridgeHandles, nextHandle, metaCache, dirCache, files, closeSent,
                   readsSeen, hmVars, moreVars>>

\* The payload is stored under the lock and the slice asked for is returned;
\* offset and size, given at the call, are first used here.
ReadStore(t, offset, size) ==
    /\ pc[t].at = "store"
    /\ pc[t].op = "Read"
    /\ bridgeHandles' = FuseReadStore(bridgeHandles, pc[t].h, pc[t].data)
    /\ pc' = [pc EXCEPT ![t] = Idle]
    /\ Call("Read", t, pc[t].h, pc[t].path, "ok", "ok",
            Slice(pc[t].data, offset, size), <<>>)
    /\ UNCHANGED <<nextHandle, metaCache, dirCache, files, closeSent, readsSeen,
                   hmVars, moreVars>>

\* handles.Write(fuseHandle, data, offset) and what it does to the server's
\* file; the caches are left to the caller.
WriteStep(t, h, data, offset, answer) ==
    /\ pc[t] = Idle
    /\ LET out == FuseWrite(bridgeHandles, h, data, offset, answer)
           path == PathOf(h)
       IN  /\ Call("Write", t, h, path, Heard(answer, out.rpcs), out.res, <<>>, out.rpcs)
           /\ IF out.res = "ok" /\ out.rpcs # <<>>
              THEN files' = IF bridgeHandles[h].htype = "local"
                            THEN ServerWrite(files, path, data)
                            ELSE ServerWriteHandle(files, path, data, offset)
              ELSE UNCHANGED files
    /\ UNCHANGED <<bridgeHandles, nextHandle, pc, closeSent, readsSeen, hmVars, moreVars>>

\* handles.Write(fuseHandle, data, offset)
DoWrite(t, h, data, offset, answer) ==
    /\ WriteStep(t, h, data, offset, answer)
    /\ UNCHANGED <<metaCache, dirCache>>

\* The write of a file handle of the kernel: handles.Write, and after a
\* successful one the caches are invalidated for the file as for every
\* mutating operation.
FileWrite(t, h, data, offset, answer) ==
    /\ WriteStep(t, h, data, offset, answer)
    /\ LET out == FuseWrite(bridgeHandles, h, data, offset, answer)
           inv == invalidateCache(metaCache, dirCache, PathOf(h))
           new == Mutated(inv.meta, inv.dir, {PathOf(h)})
       IN  IF out.res = "ok" /\ out.rpcs # <<>>
           THEN metaCache' = new.meta /\ dirCache' = new.dir
           ELSE UNCHANGED <<metaCache, dirCache>>

\* handles.Sync(fuseHandle)
DoSync(t, h, answer) ==
    /\ pc[t] = Idle
    /\ LET out == FuseSync(bridgeHandles, h, answer)
       IN  Call("Sync", t, h, PathOf(h), Heard(answer, out.rpcs), out.res, <<>>, out.rpcs)
    /\ UNCHANGED <<bridgeHandles, nextHandle, metaCache, dirCache, pc, files, closeSent,
                   readsSeen, hmVars, moreVars>>

\* handles.Close(fuseHandle) up to hm.mu.Unlock(); a handle that is unknown or
\* local needs no call to the server and Close returns at once.
CloseStart(t, h) ==
    /\ pc[t] = Idle
    /\ LET out == FuseCloseLocked(bridgeHandles, h)
       IN  /\ bridgeHandles' = out.handles
           /\ IF out.agfs = {}
              THEN /\ pc' = pc
                   /\ Call("Close", t, h, PathOf(h), "ok",
                           IF out.found THEN "ok" ELSE "error", <<>>, <<>>)
              ELSE /\ pc' = [pc EXCEPT ![t] = [at |-> "send", op |-> "Close", h |-> h,
                                               path |-> PathOf(h), agfs |-> out.agfs,
                                               kind |-> "ok"]]
                   /\ Call("Close.locked", t, h, PathOf(h), "ok", "none", <<>>, <<>>)
    /\ readsSeen' = readsSeen \ {h}
    /\ UNCHANGED <<nextHandle, metaCache, dirCache, files, closeSent, hmVars, moreVars>>

\* client.CloseHandle(info.agfsHandle) of Close, called by a kernel release or
\* by the error path of Create, which returns EIO whatever the server says
CloseSend(t, answer) ==
    /\ pc[t].at = "send"
    /\ pc[t].op \in {"Close", "Create"}
    /\ closeSent' = CloseHandles(closeSent, pc[t].agfs)
    /\ pc' = [pc EXCEPT ![t] = Idle]
    /\ Call(pc[t].op, t, pc[t].h, pc[t].path,
            IF pc[t].op = "Create" THEN pc[t].kind ELSE answer,
            IF pc[t].op = "Create" THEN "EIO"
            ELSE IF answer = "ok" THEN "ok" ELSE "error",
            <<>>,
            [i \in 1..1 |-> Rpc("CloseHandle", Root, CHOOSE a \in pc[t].agfs : TRUE,
                                0, 0, <<>>)])
    /\ UNCHANGED <<bridgeHandles, nextHandle, metaCache, dirCache, files, readsSeen, hmVars, moreVars>>

\* handles.CloseAll() up to hm.mu.Unlock()
CloseAllStart(t) ==
    /\ pc[t] = Idle
    /\ LET out == FuseCloseAllLocked(bridgeHandles)
       IN  /\ bridgeHandles' = out.handles
           /\ IF out.agfs = {}
              THEN /\ pc' = pc
                   /\ Call("CloseAll", t, 0, Root, "ok", "ok", <<>>, <<>>)
              ELSE /\ pc' = [pc EXCEPT ![t] = [at |-> "send", op |-> "CloseAll", h |-> 0,
                                               path |-> Root, agfs |-> out.agfs,
                                               kind |-> "ok"]]
                   /\ Call("CloseAll.locked", t, 0, Root, "ok", "none", <<>>, <<>>)
    /\ readsSeen' = {}
    /\ UNCHANGED <<nextHandle, metaCache, dirCache, files, closeSent, hmVars, moreVars>>

\* The loop of CloseAll over its copy of the table, in any order; the last
\* error is returned.
CloseAllSend(t) ==
    /\ pc[t].at = "send"
    /\ pc[t].op = "CloseAll"
    /\ closeSent' = CloseHandles(closeSent, pc[t].agfs)
    /\ pc' = [pc EXCEPT ![t] = Idle]
    /\ \E order \in Orders(pc[t].agfs), failing \in SUBSET pc[t].agfs :
          Call("CloseAll", t, 0, Root,
               IF failing = {} THEN "ok" ELSE "internal",
               IF failing = {} THEN "ok" ELSE "error",
               <<>>,
               [i \in DOMAIN order |-> Rpc("CloseHandle", Root, order[i], 0, 0, <<>>)])
    /\ UNCHANGED <<bridgeHandles, nextHandle, metaCache, dirCache, files, readsSeen, hmVars, moreVars>>

\* ------------------------------------------------------------ FUSE bridge: node.go
\* The node operations run on the thread that the kernel calls them on.  An
\* operation counts as a successful mutating one when it returns 0 after the
\* server carried the mutation out.

NoRpc(name, path) == Rpc(name, path, 0, 0, 0, <<>>)

\* AGFSNode.Getattr
Getattr(t, path, answer) ==
    /\ pc[t] = Idle
    /\ IF CacheHit(metaCache, path)
       THEN /\ Call("Getattr", t, 0, path, "ok", "ok", <<>>, <<>>)
            /\ UNCHANGED metaCache
       ELSE IF answer # "ok"
       THEN /\ Call("Getattr", t, 0, path, answer, "ENOENT", <<>>, <<NoRpc("Stat", path)>>)
            /\ UNCHANGED metaCache
       ELSE /\ Call("Getattr", t, 0, path, "ok", "ok", <<>>, <<NoRpc("Stat", path)>>)
            /\ metaCache' = CacheSet(metaCache, path)
    /\ UNCHANGED <<bridgeHandles, nextHandle, dirCache, pc, files, closeSent,
                   readsSeen, hmVars, moreVars>>

\* AGFSNode.Lookup of name under the root
Lookup(t, name, answer) ==
    /\ pc[t] = Idle
    /\ LET childPath == Join(Root, name)
       IN  IF CacheHit(metaCache, childPath)
           THEN /\ Call("Lookup", t, 0, childPath, "ok", "ok", <<>>, <<>>)
                /\ UNCHANGED metaCache
           ELSE IF answer # "ok"
           THEN /\ Call("Lookup", t, 0, childPath, answer, "ENOENT", <<>>,
                        <<NoRpc("Stat", childPath)>>)
                /\ UNCHANGED metaCache
           ELSE /\ Call("Lookup", t, 0, childPath, "ok", "ok", <<>>,
                        <<NoRpc("Stat", childPath)>>)
                /\ metaCache' = CacheSet(metaCache, childPath)
    /\ UNCHANGED <<bridgeHandles, nextHandle, dirCache, pc, files, closeSent,
                   readsSeen, hmVars, moreVars>>

\* AGFSNode.Readdir
Readdir(t, path, answer) ==
    /\ pc[t] = Idle
    /\ IF CacheHit(dirCache, path)
       THEN /\ Call("Readdir", t, 0, path, "ok", "ok", <<>>, <<>>)
            /\ UNCHANGED dirCache
       ELSE IF answer # "ok"
       THEN /\ Call("Readdir", t, 0, path, answer, "EIO", <<>>, <<NoRpc("ReadDir", path)>>)
            /\ UNCHANGED dirCache
       ELSE /\ Call("Readdir", t, 0, path, "ok", "ok", <<>>, <<NoRpc("ReadDir", path)>>)
            /\ dirCache' = CacheSet(dirCache, path)
    /\ UNCHANGED <<bridgeHandles, nextHandle, metaCache, pc, files, closeSent,
                   readsSeen, hmVars, moreVars>>

\* Mkdir and Symlink: the call named rpc, invalidateCache, then Stat of the new path
MakeEntry(op, rpc, t, name, answer, statAnswer) ==
    /\ pc[t] = Idle
    /\ LET childPath == Join(Root, name)
           inv == invalidateCache(metaCache, dirCache, childPath)
           new == Mutated(inv.meta, inv.dir, {childPath})
       IN  IF answer # "ok"
           THEN /\ Call(op, t, 0, childPath, answer, "EIO", <<>>, <<NoRpc(rpc, childPath)>>)
                /\ UNCHANGED <<metaCache, dirCache>>
           ELSE IF statAnswer # "ok"
           THEN /\ Call(op, t, 0, childPath, statAnswer, "EIO", <<>>,
                        <<NoRpc(rpc, childPath), NoRpc("Stat", childPath)>>)
                /\ metaCache' = inv.meta
                /\ dirCache' = inv.dir
           ELSE /\ Call(op, t, 0, childPath, "ok", "ok", <<>>,
                        <<NoRpc(rpc, childPath), NoRpc("Stat", childPath)>>)
                /\ metaCache' = new.meta
                /\ dirCache' = new.dir
    /\ UNCHANGED <<bridgeHandles, nextHandle, pc, files, closeSent, readsSeen, hmVars, moreVars>>

\* AGFSNode.Mkdir
Mkdir(t, name, answer, statAnswer) == MakeEntry("Mkdir", "Mkdir", t, name, answer, statAnswer)

\* AGFSNode.Symlink
Symlink(t, name, answer, statAnswer) ==
    MakeEntry("Symlink", "Symlink", t, name, answer, statAnswer)

\* Rmdir and Unlink: client.Remove, then invalidateCache
RemoveEntry(op, t, name, answer) ==
    /\ pc[t] = Idle
    /\ LET childPath == Join(Root, name)
           inv == invalidateCache(metaCache, dirCache, childPath)
           new == Mutated(inv.meta, inv.dir, {childPath})
       IN  IF answer # "ok"
           THEN /\ Call(op, t, 0, childPath, answer, "EIO", <<>>,
                        <<NoRpc("Remove", childPath)>>)
                /\ UNCHANGED <<metaCache, dirCache>>
           ELSE /\ Call(op, t, 0, childPath, "ok", "ok", <<>>, <<NoRpc("Remove", childPath)>>)
                /\ metaCache' = new.meta
                /\ dirCache' = new.dir
    /\ UNCHANGED <<bridgeHandles, nextHandle, pc, files, closeSent, readsSeen, hmVars, moreVars>>

\* AGFSNode.Rmdir
Rmdir(t, name, answer) == RemoveEntry("Rmdir", t, name, answer)

\* AGFSNode.Unlink
Unlink(t, name, answer) == RemoveEntry("Unlink", t, name, answer)

\* AGFSNode.Rename within the root; the new parent is always a node of the mount
Rename(t, name, newName, answer) ==
    /\ pc[t] = Idle
    /\ LET oldPath == Join(Root, name)
           newPath == Join(Root, newName)
           inv1 == invalidateCache(metaCache, dirCache, oldPath)
           inv2 == invalidateCache(inv1.meta, inv1.dir, newPath)
           new == Mutated(inv2.meta, inv2.dir, {oldPath, newPath})
       IN  IF answer # "ok"
           THEN /\ Call("Rename", t, 0, oldPath, answer, "EIO", <<>>,
                        <<NoRpc("Rename", oldPath)>>)
                /\ UNCHANGED <<metaCache, dirCache>>
           ELSE /\ Call("Rename", t, 0, oldPath, "ok", "ok", <<>>,
                        <<NoRpc("Rename", oldPath)>>)
                /\ metaCache' = new.meta
                /\ dirCache' = new.dir
    /\ UNCHANGED <<bridgeHandles, nextHandle, pc, files, closeSent, readsSeen, hmVars, moreVars>>

\* AGFSNode.Readlink
Readlink(t, path, answer) ==
    /\ pc[t] = Idle
    /\ Call("Readlink", t, 0, path, answer, IF answer = "ok" THEN "ok" ELSE "EIO",
            <<>>, <<NoRpc("Readlink", path)>>)
    /\ UNCHANGED <<bridgeHandles, nextHandle, metaCache, dirCache, pc, files, closeSent,
                   readsSeen, hmVars, moreVars>>

\* AGFSNode.Setattr: chmod when the mode is given, truncate when the size is
\* given, each followed by metaCache.Invalidate(path) alone, then Getattr.
Setattr(t, path, hasMode, hasSize, chmodAnswer, truncAnswer, statAnswer) ==
    /\ pc[t] = Idle
    /\ LET chmodRpc == IF hasMode THEN <<NoRpc("Chmod", path)>> ELSE <<>>
           truncRpc == IF hasSize THEN <<NoRpc("Truncate", path)>> ELSE <<>>
           mc == IF hasMode \/ hasSize THEN Invalidate(metaCache, path) ELSE metaCache
           new == IF hasMode \/ hasSize THEN Mutated(mc, dirCache, {path})
                  ELSE [meta |-> mc, dir |-> dirCache]
       IN  IF hasMode /\ chmodAnswer # "ok"
           THEN /\ Call("Setattr", t, 0, path, chmodAnswer, "EIO", <<>>, chmodRpc)
                /\ UNCHANGED <<metaCache, dirCache>>
           ELSE IF hasSize /\ truncAnswer # "ok"
           THEN /\ Call("Setattr", t, 0, path, truncAnswer, "EIO", <<>>,
                        chmodRpc \o truncRpc)
                /\ metaCache' = IF hasMode THEN Invalidate(metaCache, path) ELSE metaCache
                /\ UNCHANGED dirCache
           ELSE IF CacheHit(mc, path)
           THEN /\ Call("Setattr", t, 0, path, "ok", "ok", <<>>, <<>>)
                /\ UNCHANGED <<metaCache, dirCache>>
           ELSE IF statAnswer # "ok"
           THEN /\ Call("Setattr", t, 0, path, statAnswer, "ENOENT", <<>>,
                        chmodRpc \o truncRpc \o <<NoRpc("Stat", path)>>)
                /\ metaCache' = mc
                /\ UNCHANGED dirCache
           ELSE /\ Call("Setattr", t, 0, path, "ok", "ok", <<>>,
                        chmodRpc \o truncRpc \o <<NoRpc("Stat", path)>>)
                /\ metaCache' = CacheSet(new.meta, path)
                /\ dirCache' = new.dir
    /\ UNCHANGED <<bridgeHandles, nextHandle, pc, files, closeSent, readsSeen, hmVars, moreVars>>

\* AGFSNode.Create up to the return of handles.Open: client.Create,
\* invalidateCache, handles.Open
CreateOpen(t, name, answer, openAnswer) ==
    /\ pc[t] = Idle
    /\ nextHandle <= MaxOpens
    /\ LET childPath == Join(Root, name)
           inv == invalidateCache(metaCache, dirCache, childPath)
           out == FuseOpen(bridgeHandles, nextHandle, childPath, openAnswer)
       IN  IF answer # "ok"
           THEN /\ Call("Create", t, 0, childPath, answer, "EIO", <<>>,
                        <<NoRpc("Create", childPath)>>)
                /\ UNCHANGED <<bridgeHandles, nextHandle, metaCache, dirCache, pc>>
           ELSE /\ metaCache' = inv.meta
                /\ dirCache' = inv.dir
                /\ bridgeHandles' = out.handles
                /\ nextHandle' = out.nextHandle
                /\ IF out.res # "ok"
                   THEN /\ Call("Create", t, 0, childPath, openAnswer, "EIO", <<>>,
                                <<NoRpc("Create", childPath), NoRpc("OpenHandle", childPath)>>)
                        /\ UNCHANGED pc
                   ELSE /\ Call("Create.open", t, out.h, childPath, openAnswer, "none", <<>>,
                                <<NoRpc("Create", childPath), NoRpc("OpenHandle", childPath)>>)
                        /\ pc' = [pc EXCEPT ![t] = [at |-> "stat", op |-> "Create",
                                                    h |-> out.h, path |-> childPath,
                                                    agfs |-> {}, kind |-> "ok"]]
    /\ UNCHANGED <<files, closeSent, readsSeen, hmVars, moreVars>>

\* AGFSNode.Create from client.Stat on: the file handle is returned, or Stat
\* fails and handles.Close(fuseHandle) runs up to hm.mu.Unlock()
CreateStat(t, answer) ==
    /\ pc[t].at = "stat"
    /\ LET h == pc[t].h
           path == pc[t].path
           out == FuseCloseLocked(bridgeHandles, h)
           new == Mutated(metaCache, dirCache, {path})
       IN  IF answer = "ok"
           THEN /\ Call("Create", t, h, path, "ok", "ok", <<>>, <<NoRpc("Stat", path)>>)
                /\ pc' = [pc EXCEPT ![t] = Idle]
                /\ metaCache' = new.meta
                /\ dirCache' = new.dir
                /\ UNCHANGED bridgeHandles
           ELSE /\ bridgeHandles' = out.handles
                /\ UNCHANGED <<metaCache, dirCache>>
                /\ IF out.agfs = {}
                   THEN /\ Call("Create", t, h, path, answer, "EIO", <<>>,
                                <<NoRpc("Stat", path)>>)
                        /\ pc' = [pc EXCEPT ![t] = Idle]
                   ELSE /\ Call("Create.stat", t, h, path, answer, "none", <<>>,
                                <<NoRpc("Stat", path)>>)
                        /\ pc' = [pc EXCEPT ![t] = [at |-> "send", op |-> "Create",
                                                    h |-> h, path |-> path,
                                                    agfs |-> out.agfs, kind |-> answer]]
    /\ UNCHANGED <<nextHandle, files, closeSent, readsSeen, hmVars, moreVars>>

\* Getattr and Lookup called while another kernel thread removes the file.
\* Neither holds a lock between metaCache.Get, client.Stat and metaCache.Set,
\* so each of the three is a step of its own.

\* metaCache.Get(path) misses: the thread goes on to client.Stat(path)
StatStart(t, op, path) ==
    /\ pc[t] = Idle
    /\ ~CacheHit(metaCache, path)
    /\ pc' = [pc EXCEPT ![t] = [at |-> "stat", op |-> op, h |-> 0, path |-> path,
                                agfs |-> {}, kind |-> "ok"]]
    /\ Call(op \o ".miss", t, 0, path, "ok", "none", <<>>, <<>>)
    /\ UNCHANGED <<bridgeHandles, nextHandle, metaCache, dirCache, files, closeSent,
                   readsSeen, hmVars, moreVars>>

\* client.Stat(path) answers: with the attributes the file has at this moment,
\* or with an error, on which ENOENT is returned
StatCall(t, answer) ==
    /\ pc[t].at = "stat"
    /\ IF answer = "ok"
       THEN /\ pc' = [pc EXCEPT ![t].at = "set"]
            /\ Call(pc[t].op \o ".stat", t, 0, pc[t].path, answer, "none", <<>>,
                    <<NoRpc("Stat", pc[t].path)>>)
       ELSE /\ pc' = [pc EXCEPT ![t] = Idle]
            /\ Call(pc[t].op, t, 0, pc[t].path, answer, "ENOENT", <<>>,
                    <<NoRpc("Stat", pc[t].path)>>)
    /\ UNCHANGED <<bridgeHandles, nextHandle, metaCache, dirCache, files, closeSent,
                   readsSeen, hmVars, moreVars>>

\* metaCache.Set(path, info) and the return of the attributes; the entry is
\* older than a mutating operation when the answer it holds is
StatSet(t) ==
    /\ pc[t].at = "set"
    /\ metaCache' = put(metaCache, pc[t].path, pc[t].kind = "outdated")
    /\ pc' = [pc EXCEPT ![t] = Idle]
    /\ Call(pc[t].op, t, 0, pc[t].path, "ok", "ok", <<>>, <<>>)
    /\ UNCHANGED <<bridgeHandles, nextHandle, dirCache, files, closeSent, readsSeen,
                   hmVars, moreVars>>

\* The answers of client.Stat that threads hold for the paths in ps, not yet
\* stored, are from now on older than a successful mutating operation
Overtaken(ps) ==
    [t \in Threads |->
        IF pc[t].at = "set" /\ pc[t].path \in ps
        THEN [pc[t] EXCEPT !.kind = "outdated"]
        ELSE pc[t]]

\* AGFSNode.Unlink while other threads are inside Getattr or Lookup
UnlinkDuring(t, name, answer) ==
    /\ pc[t] = Idle
    /\ LET childPath == Join(Root, name)
           inv == invalidateCache(metaCache, dirCache, childPath)
           new == Mutated(inv.meta, inv.dir, {childPath})
       IN  IF answer # "ok"
           THEN /\ Call("Unlink", t, 0, childPath, answer, "EIO", <<>>,
                        <<NoRpc("Remove", childPath)>>)
                /\ UNCHANGED <<metaCache, dirCache, pc>>
           ELSE /\ Call("Unlink", t, 0, childPath, "ok", "ok", <<>>,
                        <<NoRpc("Remove", childPath)>>)
                /\ metaCache' = new.meta
                /\ dirCache' = new.dir
                /\ pc' = Overtaken({childPath})
    /\ UNCHANGED <<bridgeHandles, nextHandle, files, closeSent, readsSeen, hmVars, moreVars>>

\* Getattr answered from the cache
GetattrCached(t, path) ==
    /\ CacheHit(metaCache, path)
    /\ Getattr(t, path, "ok")

\* An entry of a cache outlives its TTL and is dropped.
CacheExpire(path) ==
    /\ \/ /\ CacheHit(metaCache, path)
          /\ metaCache' = Invalidate(metaCache, path)
          /\ UNCHANGED dirCache
       \/ /\ CacheHit(dirCache, path)
          /\ dirCache' = Invalidate(dirCache, path)
          /\ UNCHANGED metaCache
    /\ Call("expire", 0, 0, path, "ok", "none", <<>>, <<>>)
    /\ UNCHANGED <<bridgeHandles, nextHandle, pc, files, closeSent, readsSeen, hmVars, moreVars>>

\* ------------------------------------------------------------ FUSE bridge: specifications

\* The bytes of a write call, and the <<offset, size>> of a read call: a slice
\* inside the two bytes of a file, one cut at its end, one past its end
WriteData == {<<>>, <<3>>}
ReadArgs == {<<0, 1>>, <<1, 2>>, <<2, 1>>}

\* The server's answers tried on the node operations: on those that look a
\* path up, on those that make an entry, on those that remove or move one
StatAnswers == {"ok", "not-found", "permission-denied"}
MakeAnswers == {"ok", "already-exists", "permission-denied"}
RemoveAnswers == {"ok", "not-found", "read-only"}

\* One kernel thread at the handle table: the calls on a handle come one after another.
HandleNext ==
    \/ \E answer \in Answers : DoOpen(1, Join(Root, "f"), answer)
    \/ \E h \in KnownFuse, a \in ReadArgs, answer \in {"ok", "internal"} :
          DoRead(1, h, a[1], a[2], answer)
    \/ \E h \in KnownFuse, data \in WriteData, answer \in {"ok", "internal"} :
          DoWrite(1, h, data, 0, answer)
    \/ \E h \in KnownFuse, answer \in {"ok", "internal"} : DoSync(1, h, answer)
    \/ \E h \in KnownFuse : CloseStart(1, h)
    \/ \E answer \in {"ok", "internal"} : CloseSend(1, answer)
    \/ CloseAllStart(1)
    \/ CloseAllSend(1)

HandleSpec == Init /\ [][HandleNext]_vars

\* The kernel threads race on the handle table with Open, Close, CloseAll and Create.
RaceNext ==
    \/ \E t \in Threads, answer \in {"ok", "not-supported", "internal"} :
          DoOpen(t, Join(Root, "f"), answer)
    \/ \E t \in Threads, h \in KnownFuse : CloseStart(t, h)
    \/ \E t \in Threads, answer \in {"ok", "internal"} : CloseSend(t, answer)
    \/ \E t \in Threads : CloseAllStart(t)
    \/ \E t \in Threads : CloseAllSend(t)
    \/ \E t \in Threads, answer \in {"ok", "internal"},
           openAnswer \in {"ok", "not-supported", "internal"} :
          CreateOpen(t, "g", answer, openAnswer)
    \/ \E t \in Threads, answer \in {"ok", "not-found"} : CreateStat(t, answer)

RaceSpec == Init /\ [][RaceNext]_vars

\* Two kernel threads that open, read, write and close local handles of one
\* file: the server has no handles to offer
ReadRaceNext ==
    \/ \E t \in Threads : DoOpen(t, Join(Root, "f"), "not-supported")
    \/ \E t \in Threads, h \in KnownFuse : ReadStart(t, h)
    \/ \E t \in Threads, h \in KnownFuse, a \in ReadArgs :
          ReadAtOnce(t, h, a[1], a[2], "ok")
    \/ \E t \in Threads, answer \in {"ok", "internal"} : ReadFetch(t, answer)
    \/ \E t \in Threads, a \in ReadArgs : ReadStore(t, a[1], a[2])
    \/ \E t \in Threads, h \in KnownFuse, data \in WriteData :
          DoWrite(t, h, data, 0, "ok")
    \/ \E t \in Threads, h \in KnownFuse : CloseStart(t, h)

ReadRaceSpec == Init /\ [][ReadRaceNext]_vars

\* Two kernel threads that look files up and remove them
StatRaceNext ==
    \/ \E t \in Threads, op \in {"Getattr", "Lookup"}, path \in Children :
          StatStart(t, op, path)
    \/ \E t \in Threads, answer \in {"ok", "not-found"} : StatCall(t, answer)
    \/ \E t \in Threads : StatSet(t)
    \/ \E t \in Threads, path \in Children : GetattrCached(t, path)
    \/ \E t \in Threads, name \in Names, answer \in RemoveAnswers :
          UnlinkDuring(t, name, answer)
    \/ \E path \in Children : CacheExpire(path)

StatRaceSpec == Init /\ [][StatRaceNext]_vars

\* A directory /f with an entry g in it: the kernel asks for the attributes of
\* both and for the listings of / and /f, and removes or renames the directory
InTree == Join(Join(Root, "f"), "g")

TreeNext ==
    \/ \E path \in {Join(Root, "f"), InTree}, answer \in StatAnswers :
          Getattr(1, path, answer)
    \/ \E path \in {Root, Join(Root, "f")}, answer \in {"ok", "not-directory"} :
          Readdir(1, path, answer)
    \/ \E answer \in RemoveAnswers : Rmdir(1, "f", answer)
    \/ \E answer \in RemoveAnswers : Rename(1, "f", "g", answer)
    \/ \E path \in {Root, Join(Root, "f"), InTree} : CacheExpire(path)

TreeSpec == Init /\ [][TreeNext]_vars

\* One kernel thread at the node operations and their caches.
NodeNext ==
    \/ \E path \in Children, answer \in StatAnswers : Getattr(1, path, answer)
    \/ \E name \in Names, answer \in StatAnswers : Lookup(1, name, answer)
    \/ \E answer \in {"ok", "not-directory", "internal"} : Readdir(1, Root, answer)
    \/ \E answer \in MakeAnswers, statAnswer \in {"ok", "not-found"} :
          Mkdir(1, "f", answer, statAnswer)
    \/ \E answer \in MakeAnswers, statAnswer \in {"ok", "not-found"} :
          Symlink(1, "g", answer, statAnswer)
    \/ \E answer \in RemoveAnswers : Rmdir(1, "f", answer)
    \/ \E answer \in RemoveAnswers \cup {"is-directory"} : Unlink(1, "g", answer)
    \/ \E name \in Names, newName \in Names, answer \in RemoveAnswers :
          name # newName /\ Rename(1, name, newName, answer)
    \/ \E answer \in {"ok", "not-found", "invalid-argument"} :
          Readlink(1, Join(Root, "g"), answer)
    \/ \E hasMode \in BOOLEAN, hasSize \in BOOLEAN,
           chmodAnswer \in {"ok", "permission-denied"}, truncAnswer \in {"ok", "read-only"},
           statAnswer \in {"ok", "not-found"} :
          Setattr(1, Join(Root, "f"), hasMode, hasSize, chmodAnswer, truncAnswer, statAnswer)
    \/ \E answer \in MakeAnswers, openAnswer \in {"not-supported", "internal"} :
          CreateOpen(1, "f", answer, openAnswer)
    \/ \E answer \in {"ok", "not-found"} : CreateStat(1, answer)
    \/ \E h \in KnownFuse, answer \in {"ok", "read-only"} : FileWrite(1, h, <<3>>, 0, answer)
    \/ \E path \in NodePaths : CacheExpire(path)

NodeSpec == Init /\ [][NodeNext]_vars

\* Goroutines running the handlers of the two packages, statement by statement
LockNext ==
    \/ \E t \in Threads, mu \in Mutexes : \E stmts \in HandlersOf(mu) : Enter(t, mu, stmts)
    \/ \E t \in Threads : Lock(t)
    \/ \E t \in Threads : RLock(t)
    \/ \E t \in Threads : Unlock(t)
    \/ \E t \in Threads : CallReturns(t)
    \/ \E t \in Threads : Leave(t)

LockSpec == Init /\ [][LockNext]_vars

\* ------------------------------------------------------------ vectorfs: steps

Did(pl, op, out, digest) ==
    [op |-> op, out |-> out, digest |-> digest, len |-> Len(pl.indexQueue),
     shut |-> pl.shutdown]

\* A client writes data to docs/fileName; the step is the whole of Write, which
\* is not taken while its send has to wait.
DocWrite(fileName, data) ==
    /\ ~v.panicked
    /\ v.writes < MaxWrites
    /\ vectorFSWrite(v, fileName, data).did.out # "blocked"
    /\ v' = vectorFSWrite(v, fileName, data)
    /\ UNCHANGED <<hmVars, bridgeVars, lockPc, plug, sym, reap>>

\* The goroutine started by the default branch of Write, at its select: the
\* send when the queue takes the task (a panic when the channel is closed), or
\* the receive from the closed shutdown channel.  With both cases ready the
\* runtime picks either.
SuperviseSend(i) ==
    /\ ~v.panicked
    /\ i \in 1..Len(v.supervisors)
    /\ v.closed \/ Len(v.indexQueue) < QueueCap
    /\ LET task == v.supervisors[i]
       IN  v' = IF v.closed
                THEN [v EXCEPT !.panicked = TRUE,
                               !.did = Did(v, "supervisor", "panic", task.digest)]
                ELSE [v EXCEPT !.indexQueue = Append(@, task),
                               !.supervisors = Without(@, i),
                               !.did = Did(v, "supervisor", "queued", task.digest)]
    /\ UNCHANGED <<hmVars, bridgeVars, lockPc, plug, sym, reap>>

SuperviseShutdown(i) ==
    /\ ~v.panicked
    /\ i \in 1..Len(v.supervisors)
    /\ v.shutdown
    /\ LET task == v.supervisors[i]
       IN  v' = [removeIndexingTask(v, task.digest) EXCEPT
                    !.supervisors = Without(@, i),
                    !.did = Did(v, "supervisor", "dropped", task.digest)]
    /\ UNCHANGED <<hmVars, bridgeVars, lockPc, plug, sym, reap>>

\* indexWorker at its select: the receive from the shutdown channel once it is
\* closed, or the receive from the queue, which yields the oldest task, or the
\* zero task when the channel is closed and empty.  With both cases ready the
\* runtime picks either.
WorkerReturn(w) ==
    /\ ~v.panicked
    /\ v.workers[w] = AtSelect
    /\ v.shutdown
    /\ v' = [v EXCEPT !.workers[w] = Exited,
                      !.did = Did(v, "workerExit", "ok", <<>>)]
    /\ UNCHANGED <<hmVars, bridgeVars, lockPc, plug, sym, reap>>

WorkerReceive(w) ==
    /\ ~v.panicked
    /\ v.workers[w] = AtSelect
    /\ v.indexQueue # <<>> \/ v.closed
    /\ LET task == IF v.indexQueue # <<>> THEN Head(v.indexQueue) ELSE ZeroTask
       IN  v' = [v EXCEPT !.workers[w] = [at |-> "busy", task |-> task],
                          !.indexQueue = IF @ # <<>> THEN Tail(@) ELSE @,
                          !.did = Did(v, "receive", "ok", task.digest)]
    /\ UNCHANGED <<hmVars, bridgeVars, lockPc, plug, sym, reap>>

\* indexWorker after the receive: IndexChunks, then removeIndexingTask
WorkerIndex(w, failed) ==
    /\ ~v.panicked
    /\ v.workers[w].at = "busy"
    /\ LET task == v.workers[w].task
       IN  v' = [removeIndexingTask(IndexChunks(v, task, failed), task.digest) EXCEPT
                    !.workers[w] = AtSelect,
                    !.did = Did(v, "indexed", IF failed THEN "error" ELSE "ok",
                                task.digest)]
    /\ UNCHANGED <<hmVars, bridgeVars, lockPc, plug, sym, reap>>

\* Shutdown: close(v.shutdown), close(v.indexQueue), v.workerWg.Wait()
ShutdownSignal ==
    /\ ~v.panicked
    /\ v.shutdownPc = "idle"
    /\ v' = [v EXCEPT !.shutdown = TRUE, !.shutdownPc = "closeQueue",
                      !.did = Did(v, "Shutdown", "signal", <<>>)]
    /\ UNCHANGED <<hmVars, bridgeVars, lockPc, plug, sym, reap>>

ShutdownCloseQueue ==
    /\ ~v.panicked
    /\ v.shutdownPc = "closeQueue"
    /\ v' = [v EXCEPT !.closed = TRUE, !.shutdownPc = "wait",
                      !.did = Did(v, "Shutdown", "closeQueue", <<>>)]
    /\ UNCHANGED <<hmVars, bridgeVars, lockPc, plug, sym, reap>>

ShutdownWait ==
    /\ ~v.panicked
    /\ v.shutdownPc = "wait"
    /\ \A w \in Workers : v.workers[w] = Exited
    /\ v' = [v EXCEPT !.shutdownPc = "done",
                      !.did = Did(v, "Shutdown", "done", <<>>)]
    /\ UNCHANGED <<hmVars, bridgeVars, lockPc, plug, sym, reap>>

QueueNext ==
    \/ \E fileName \in FileNames, data \in Contents : DocWrite(fileName, data)
    \/ \E i \in 1..MaxWrites : SuperviseSend(i)
    \/ \E i \in 1..MaxWrites : SuperviseShutdown(i)
    \/ \E w \in Workers : WorkerReturn(w)
    \/ \E w \in Workers : WorkerReceive(w)
    \/ \E w \in Workers, failed \in BOOLEAN : WorkerIndex(w, failed)
    \/ ShutdownSignal
    \/ ShutdownCloseQueue
    \/ ShutdownWait

QueueSpec == Init /\ [][QueueNext]_vars

\* The plugin while Shutdown is not called.  A worker that can receive or is
\* busy gets to run, and so does an overflow goroutine whose send the queue
\* can take.
QueueLiveNext ==
    \/ \E fileName \in FileNames, data \in Contents : DocWrite(fileName, data)
    \/ \E i \in 1..MaxWrites : SuperviseSend(i)
    \/ \E w \in Workers : WorkerReceive(w)
    \/ \E w \in Workers, failed \in BOOLEAN : WorkerIndex(w, failed)

QueueLiveSpec ==
    /\ Init
    /\ [][QueueLiveNext]_vars
    /\ \A i \in 1..MaxWrites : WF_vars(SuperviseSend(i))
    /\ \A w \in Workers : WF_vars(WorkerReceive(w))
    /\ \A w \in Workers : WF_vars(\E failed \in BOOLEAN : WorkerIndex(w, failed))

\* ------------------------------------------------------------ file plugins: calls

\* Before is what the file held when the call was made; a Read to the end of
\* the file keeps the Truncate made just before it.
Called(fs, op, path, offset, size, before, ret) ==
    /\ plug' = [files |-> IF fs \in Stores
                          THEN [plug.files EXCEPT ![fs] = ret.content]
                          ELSE plug.files,
                did |-> [fs |-> fs, op |-> op, path |-> path, offset |-> offset,
                         size |-> size, before |-> before, ret |-> ret,
                         prev |-> IF plug.did.op = "Truncate" /\ op = "Read" /\ size = -1
                                  THEN [fs |-> plug.did.fs, op |-> plug.did.op,
                                        path |-> plug.did.path,
                                        size |-> plug.did.size,
                                        before |-> plug.did.before,
                                        err |-> plug.did.ret.err]
                                  ELSE NoPrev]]
    /\ UNCHANGED <<hmVars, bridgeVars, lockPc, v, sym, reap>>

\* The file is written as a whole.
StoreWrite(fs, data) ==
    /\ fs \in Stores
    /\ Called(fs, "Write", "/file", 0, Len(data), plug.files[fs],
              Returned("ok", <<>>, TRUE, data))

Truncate(fs, size) ==
    /\ fs \in Stores
    /\ Called(fs, "Truncate", "/file", 0, size, plug.files[fs],
              IF fs = "vectorfs" THEN vectorFSTruncate(plug.files[fs], size)
              ELSE S3FSTruncate(plug.files[fs], size))

DevTruncate(path, size) ==
    /\ path \in DevPaths
    /\ Called("devfs", "Truncate", path, 0, size, <<>>, DevFSTruncate(path, size))

\* Read(path, 0, -1)
ReadWhole(fs) ==
    /\ fs \in Stores
    /\ Called(fs, "Read", "/file", 0, -1, plug.files[fs],
              IF fs = "vectorfs" THEN vectorFSRead(plug.files[fs])
              ELSE S3FSRead(plug.files[fs]))

DevRead(path, offset, size) ==
    /\ path \in DevPaths
    /\ Called("devfs", "Read", path, offset, size, <<>>, DevFSRead(path, offset, size))

Chmod(fs, path, mode) ==
    /\ fs \in {"vectorfs", "devfs", "sqlfs2"}
    /\ LET content == IF fs \in Stores THEN plug.files[fs] ELSE <<>>
       IN  Called(fs, "Chmod", path, 0, 0, content,
                  IF fs = "vectorfs" THEN vectorFSChmod(content, mode)
                  ELSE IF fs = "devfs" THEN DevFSChmod(path, mode)
                  ELSE sqlfs2Chmod(path, mode))

\* The bridge answers a read of a LOCAL handle from the handle's buffer, which
\* holds what the plugin's file held when the handle was first read.
BufferRead(fs, offset, size) ==
    /\ fs \in Stores
    /\ Called("bridge", "Read", "/file", offset, size, plug.files[fs],
              Returned("ok", Slice(plug.files[fs], offset, size), FALSE, plug.files[fs]))

PlugNext ==
    \/ \E fs \in Stores, data \in Docs : StoreWrite(fs, data)
    \/ \E fs \in Stores, size \in 0..MaxSize : Truncate(fs, size)
    \/ \E path \in DevPaths, size \in 0..MaxSize : DevTruncate(path, size)
    \/ \E fs \in Stores : ReadWhole(fs)
    \/ \E path \in DevPaths, offset \in 0..MaxSize, size \in {-1, 1} :
           DevRead(path, offset, size)
    \/ \E mode \in {420, 511} : Chmod("vectorfs", "/file", mode)
    \/ \E path \in {"/null", "/"}, mode \in {420, 511} : Chmod("devfs", path, mode)
    \/ \E path \in {"/null", "/"}, mode \in {420, 511} : Chmod("sqlfs2", path, mode)
    \/ \E fs \in Stores, offset \in 0..MaxSize, size \in {1, 2} :
           BufferRead(fs, offset, size)

PlugSpec == Init /\ [][PlugNext]_vars

\* ------------------------------------------------------------ symlink overlay: steps

\* symlink(target, link): the link is created if the path is free
CreateLink(k, target) ==
    /\ NodePath(k) \notin DOMAIN sym.links
    /\ target \in TargetsOf(k)
    /\ sym' = [sym EXCEPT !.links = [p \in DOMAIN @ \cup {NodePath(k)} |->
                                        IF p = NodePath(k) THEN target ELSE @[p]],
                          !.did = NoResolve]
    /\ UNCHANGED <<hmVars, bridgeVars, lockPc, v, plug, reap>>

\* unlink(link)
RemoveLink(k) ==
    /\ NodePath(k) \in DOMAIN sym.links
    /\ sym' = [sym EXCEPT !.links = [p \in DOMAIN @ \ {NodePath(k)} |-> @[p]],
                          !.did = NoResolve]
    /\ UNCHANGED <<hmVars, bridgeVars, lockPc, v, plug, reap>>

\* The router resolves the path of an operation.
ResolvePath(path) ==
    /\ path \in Queries
    /\ sym' = [sym EXCEPT !.did = [op |-> "resolve", path |-> path,
                                   ret |-> Resolve(sym.links, path, 0)]]
    /\ UNCHANGED <<hmVars, bridgeVars, lockPc, v, plug, reap>>

SymNext ==
    \/ \E k \in 1..NumNodes : \E target \in TargetsOf(k) : CreateLink(k, target)
    \/ \E k \in 1..NumNodes : RemoveLink(k)
    \/ \E path \in Queries : ResolvePath(path)

SymSpec == Init /\ [][SymNext]_vars

\* ------------------------------------------------------------ handle manager: statement steps

Reap(r) ==
    /\ reap' = r
    /\ UNCHANGED <<hmVars, bridgeVars, lockPc, v, plug, sym>>

\* Register runs its whole body under the lock and closes nothing: one step
\* while nobody holds the lock.  The k-th record gets id k and plugin handle
\* 100 + k.
ReapRegister(lease) ==
    /\ reap.mu = "free"
    /\ reap.issued < MaxRegs
    /\ LET reg == Register(reap.handles, [i \in 1..reap.issued |-> 100 + i],
                           100 + reap.issued + 1, lease, reap.clock)
       IN  /\ reg.res = "ok"
           /\ Reap([reap EXCEPT !.handles = reg.handles, !.issued = @ + 1,
                                !.did = [NoStmt EXCEPT !.op = "Register"]])

\* A goroutine enters Get or Renew, the cleanup goroutine enters cleanup
ReapCall(t, op, id, lease) ==
    /\ reap.g[t].pc = "idle"
    /\ reap.clock < Horizon
    /\ (t = "cleanupLoop") = (op = "cleanup")
    /\ Reap([reap EXCEPT !.g[t] = [Resting EXCEPT !.op = op, !.pc = "Lock", !.id = id,
                                                 !.lease = lease],
                         !.did = [NoStmt EXCEPT !.who = t, !.op = op]])

ReapLock(t) ==
    /\ reap.g[t].pc = "Lock"
    /\ MutexOf(reap.g[t].op) = "Lock" => reap.mu = "free"
    /\ Reap(lockStmt(reap, t))

ReapRange(t) ==
    /\ reap.g[t].pc = "range"
    /\ \E id \in reap.g[t].todo \cap DOMAIN reap.handles : Reap(rangeStmt(reap, t, id))

ReapRangeEnd(t) ==
    /\ reap.g[t].pc = "range"
    /\ reap.g[t].todo \cap DOMAIN reap.handles = {}
    /\ Reap([reap EXCEPT !.g[t].pc = "Unlock",
                         !.did = Ran(reap, t, "range", "end", 0, FALSE)])

ReapLookup(t) ==
    /\ reap.g[t].pc = "lookup"
    /\ Reap(lookupStmt(reap, t))

ReapClose(t) ==
    /\ reap.g[t].pc = "Close"
    /\ Reap(closeStmt(reap, t))

ReapDelete(t) ==
    /\ reap.g[t].pc = "delete"
    /\ Reap(deleteStmt(reap, t))

ReapRefresh(t) ==
    /\ reap.g[t].pc = "refresh"
    /\ Reap(refreshStmt(reap, t))

ReapUnlock(t) ==
    /\ reap.g[t].pc = "Unlock"
    /\ Reap(unlockStmt(reap, t))

\* Time passes, also while a goroutine is inside a handler
ReapTick ==
    /\ reap.clock < MaxTime
    /\ Reap([reap EXCEPT !.clock = @ + 1, !.did = NoStmt])

ReapNext ==
    \/ \E lease \in {1, DefaultLease} : ReapRegister(lease)
    \/ \E t \in Goroutines, op \in {"Get", "Renew", "cleanup"}, id \in 1..MaxRegs,
          lease \in {0, 1} :
           /\ (op # "Renew") => lease = 0
           /\ (op = "cleanup") => id = 1
           /\ ReapCall(t, op, id, lease)
    \/ \E t \in Goroutines : ReapLock(t)
    \/ \E t \in Goroutines : ReapRange(t)
    \/ \E t \in Goroutines : ReapRangeEnd(t)
    \/ \E t \in Goroutines : ReapLookup(t)
    \/ \E t \in Goroutines : ReapClose(t)
    \/ \E t \in Goroutines : ReapDelete(t)
    \/ \E t \in Goroutines : ReapRefresh(t)
    \/ \E t \in Goroutines : ReapUnlock(t)
    \/ ReapTick

ReapSpec == Init /\ [][ReapNext]_vars

\* ------------------------------------------------------------ properties

\* ids returned by Register so far; registered[id] is the plugin handle given for id
Issued == 1..Len(registered)

\* C1: the Close of a registered plugin handle is invoked at most once, whatever
\* the interleaving of Close, expired Get and Renew, reaper ticks and Stop; a
\* record still in the table has not been closed, and once its id has left the
\* table exactly one of the competing closers has invoked Close.
C1_CloseAtMostOnce ==
    /\ \A h \in PluginHandles : Len(closes[h]) <= 1
    /\ \A id \in Issued :
          IF id \in DOMAIN handles
          THEN handles[id].Handle = registered[id] /\ closes[registered[id]] = <<>>
          ELSE Len(closes[registered[id]]) = 1
    /\ \A h \in last.closed : closes[h] = <<last.op>>

\* A foreground Close lost the race against the reaper on one id, and on
\* another id a foreground Close won.
C1_Witness ==
    \E id \in Issued, other \in Issued :
        /\ last.op = "Close" /\ last.id = id /\ last.res = "notfound"
        /\ closes[registered[id]] = <<"cleanup">>
        /\ closes[registered[other]] = <<"Close">>

\* C2: once Close(id) has closed a registered id, the plugin Close was invoked
\* exactly once for its handle, the id is out of the table for good, and every
\* later Get, Renew, GetInfo or Close on it returns not-found and invokes no
\* plugin call.
C2_ClosedIsTerminal ==
    \A id \in Issued :
        "Close" \in {closes[registered[id]][k] : k \in 1..Len(closes[registered[id]])}
        => /\ closes[registered[id]] = <<"Close">>
           /\ id \notin DOMAIN handles
           /\ (/\ last.id = id
               /\ last.op \in {"Get", "Renew", "GetInfo", "Close"}
               /\ ~(last.op = "Close" /\ last.closed = {registered[id]}))
              => (last.res = "notfound" /\ last.closed = {})

\* A Get on an id that Close had closed before.
C2_Witness ==
    \E id \in Issued :
        /\ last.op = "Get" /\ last.id = id /\ last.res = "notfound"
        /\ closes[registered[id]] = <<"Close">>

\* C3: Get and Renew on a record whose lease has run out (now > ExpiresAt)
\* return not-found, invoke the plugin Close of that record and remove it.
C3_ExpiredLookupCloses ==
    [][\A id \in DOMAIN handles :
          (/\ now > handles[id].ExpiresAt
           /\ last'.op \in {"Get", "Renew"}
           /\ last'.id = id)
          => /\ last'.res = "notfound"
             /\ id \notin DOMAIN handles'
             /\ last'.closed = {handles[id].Handle}
             /\ closes'[handles[id].Handle] = Append(closes[handles[id].Handle], last'.op)]_vars

\* One handle was closed by an expired Get and another by an expired Renew,
\* neither by the reaper.
C3_Witness ==
    \E h1 \in PluginHandles, h2 \in PluginHandles :
        /\ closes[h1] = <<"Get">>
        /\ closes[h2] = <<"Renew">>
        /\ last.res = "notfound" /\ last.closed # {}

\* C4: Get on a record whose lease has not run out returns the plugin handle
\* registered under that id and sets LastAccess to now and ExpiresAt to
\* now + LeaseTime; a record leaves the table only when its lease has run out
\* or through Close or Stop.
C4_GetRefreshes ==
    [][\A id \in DOMAIN handles :
          /\ (/\ now <= handles[id].ExpiresAt
              /\ last'.op = "Get"
              /\ last'.id = id)
             => /\ last'.res = "ok"
                /\ last'.val = registered[id]
                /\ last'.closed = {}
                /\ id \in DOMAIN handles'
                /\ handles'[id].LastAccess = now
                /\ handles'[id].ExpiresAt = now + handles[id].LeaseTime
                /\ handles'[id].LeaseTime = handles[id].LeaseTime
          /\ id \notin DOMAIN handles'
             => \/ now > handles[id].ExpiresAt
                \/ last'.op \in {"Close", "Stop"}]_vars

\* A Get, some time after the start, has returned the registered handle of the
\* second id and moved its expiry to now + LeaseTime.
C4_Witness ==
    \E id \in DOMAIN handles :
        /\ last.op = "Get" /\ last.id = id /\ last.res = "ok"
        /\ id = 2 /\ last.val = registered[2]
        /\ now > 1
        /\ handles[id].LastAccess = now
        /\ handles[id].ExpiresAt = now + handles[id].LeaseTime

\* C5: Register fails with the capacity error exactly when the table already
\* holds MaxHandles records, a refused Register changes nothing, and the table
\* never holds more than MaxHandles records.
C5_Capacity ==
    [][/\ last'.op = "Register"
          => IF Cardinality(DOMAIN handles) >= MaxHandles
             THEN /\ last'.res = "capacity"
                  /\ handles' = handles
                  /\ registered' = registered
                  /\ closes' = closes
             ELSE /\ last'.res = "ok"
                  /\ Cardinality(DOMAIN handles') = Cardinality(DOMAIN handles) + 1
       /\ Cardinality(DOMAIN handles') <= MaxHandles]_vars

\* A Register was refused with the table full.
C5_Witness ==
    /\ last.op = "Register" /\ last.res = "capacity"
    /\ Cardinality(DOMAIN handles) = MaxHandles

\* C6: every record in the table has ExpiresAt = LastAccess + LeaseTime and
\* LeaseTime <= MaxLease.
C6_LeaseInvariant ==
    \A id \in DOMAIN handles :
        /\ handles[id].ExpiresAt = handles[id].LastAccess + handles[id].LeaseTime
        /\ handles[id].LeaseTime <= MaxLease

\* A record whose lease an oversized Renew has just replaced, some time after
\* the start.
C6_Witness ==
    \E id \in DOMAIN handles :
        /\ last.op = "Renew" /\ last.id = id /\ last.res = "ok"
        /\ last.lease > MaxLease
        /\ now > 0
        /\ handles[id].LastAccess = now
        /\ handles[id].LeaseTime = MaxLease

\* C7: a record that gets no more Get or Renew (client calls end at Horizon)
\* is in the end closed and removed by the reaper, when the clock and the
\* reaper keep running and Stop is not called.
C7_ReaperEventuallyCloses ==
    \A id \in 1..MaxRegs :
        (id \in DOMAIN handles /\ now >= Horizon)
            ~> (/\ id \in Issued
                /\ id \notin DOMAIN handles
                /\ closes[registered[id]] = <<"cleanup">>)

\* The reaper has just closed a record that survived the clients' last calls.
C7_Witness ==
    \E id \in Issued :
        /\ now > Horizon
        /\ last.op = "cleanup"
        /\ last.closed = {registered[id]}
        /\ handles = [i \in {} |-> 0]
        /\ closes[registered[id]] = <<"cleanup">>

\* C8 as stated: after a reaper tick at time T every remaining record has
\* ExpiresAt > T, and each record the tick removed was closed by the tick.
C8_Original ==
    [][last'.op = "cleanup"
       => /\ \A id \in DOMAIN handles' : handles'[id].ExpiresAt > now'
          /\ \A id \in (DOMAIN handles) \ (DOMAIN handles') :
                /\ handles[id].Handle \in last'.closed
                /\ closes'[handles[id].Handle]
                      = Append(closes[handles[id].Handle], "cleanup")]_vars

\* C8, amended: after a reaper tick at time T every remaining record has
\* ExpiresAt >= T (a record with ExpiresAt = T stays), the tick removes exactly
\* the records with ExpiresAt < T, and each removed record was closed by the tick.
C8_ReaperTick ==
    [][last'.op = "cleanup"
       => /\ \A id \in DOMAIN handles' : handles'[id].ExpiresAt >= now'
          /\ DOMAIN handles' = {id \in DOMAIN handles : handles[id].ExpiresAt >= now}
          /\ \A id \in (DOMAIN handles) \ (DOMAIN handles') :
                /\ handles[id].Handle \in last'.closed
                /\ closes'[handles[id].Handle]
                      = Append(closes[handles[id].Handle], "cleanup")]_vars

\* A reaper tick has just closed one record and left one whose lease ends now.
C8_Witness ==
    /\ last.op = "cleanup"
    /\ last.closed # {}
    /\ \E id \in DOMAIN handles : handles[id].ExpiresAt = now

\* C9: the sweep of Stop starts only after cleanupLoop has returned, it calls
\* the plugin Close of every record then in the table and leaves the table
\* empty, and no reaper tick runs after it.
C9_StopSweep ==
    [][/\ last'.op = "Stop"
          => /\ stopCh = "closed"
             /\ loopPc = "done"
             /\ handles' = [i \in {} |-> 0]
             /\ last'.closed = {handles[id].Handle : id \in DOMAIN handles}
             /\ \A id \in DOMAIN handles :
                   closes'[handles[id].Handle]
                      = Append(closes[handles[id].Handle], "Stop")
       /\ stopPc = "done" => (last'.op # "cleanup" /\ loopPc' = "done")]_vars

\* Stop has just closed two records that were still in the table.
C9_Witness ==
    /\ last.op = "Stop"
    /\ stopPc = "done"
    /\ Cardinality(last.closed) = 2
    /\ \A h \in last.closed : closes[h] = <<"Stop">>
    /\ handles = [i \in {} |-> 0]

\* The lease as C10 states it: 0 stands for the fallback, then clamp into [1, MaxLease]
ClampedLease(requested, fallback) ==
    LET l == IF requested = 0 THEN fallback ELSE requested
    IN  IF l < 1 THEN 1 ELSE IF l > MaxLease THEN MaxLease ELSE l

\* The lease as amended: 0 or less stands for the fallback, then cap at MaxLease
CappedLease(requested, fallback) ==
    LET l == IF requested <= 0 THEN fallback ELSE requested
    IN  IF l > MaxLease THEN MaxLease ELSE l

\* C10 as stated: Register and Renew clamp the requested lease into
\* [1, MaxLease], 0 meaning DefaultLease for Register and the record's LeaseTime
\* for Renew; the returned expiry is now + that lease and Renew stores it.
C10_Original ==
    [][/\ (last'.op = "Register" /\ last'.res = "ok")
          => LET l == ClampedLease(last'.lease, DefaultLease)
             IN  /\ last'.val = now + l
                 /\ handles'[last'.id].LeaseTime = l
       /\ (last'.op = "Renew" /\ last'.res = "ok")
          => LET l == ClampedLease(last'.lease, handles[last'.id].LeaseTime)
             IN  /\ last'.val = now + l
                 /\ handles'[last'.id].LeaseTime = l]_vars

\* C10, amended: a requested lease of 0 or less means DefaultLease for Register
\* and the record's LeaseTime for Renew, a larger one is capped at MaxLease; the
\* lease so obtained lies in [1, MaxLease], the returned expiry is now + that
\* lease, and Renew stores it as the record's LeaseTime.
C10_LeaseCapped ==
    [][/\ (last'.op = "Register" /\ last'.res = "ok")
          => LET l == CappedLease(last'.lease, DefaultLease)
             IN  /\ l \in 1..MaxLease
                 /\ last'.val = now + l
                 /\ handles'[last'.id].LeaseTime = l
                 /\ handles'[last'.id].ExpiresAt = now + l
       /\ (last'.op = "Renew" /\ last'.res = "ok")
          => LET l == CappedLease(last'.lease, handles[last'.id].LeaseTime)
             IN  /\ l \in 1..MaxLease
                 /\ last'.val = now + l
                 /\ handles'[last'.id].LeaseTime = l
                 /\ handles'[last'.id].ExpiresAt = now + l]_vars

\* A Renew with a negative lease has kept a LeaseTime other than 1 and other
\* than DefaultLease.
C10_Witness ==
    \E id \in DOMAIN handles :
        /\ last.op = "Renew" /\ last.id = id /\ last.res = "ok"
        /\ last.lease < 0
        /\ handles[id].LeaseTime = MaxLease
        /\ last.val = now + MaxLease

\* C12: GetInfo changes nothing: every record keeps its LastAccess, ExpiresAt
\* and LeaseTime, no record is closed or removed, and a successful GetInfo
\* reports the expiry the record had before the call.
C12_InfoChangesNothing ==
    [][last'.op = "GetInfo"
       => /\ handles' = handles
          /\ closes' = closes
          /\ registered' = registered
          /\ last'.closed = {}
          /\ last'.res = "ok" => last'.val = handles[last'.id].ExpiresAt]_vars

\* A GetInfo has answered for a record some time after its last access, and
\* the record still expires at LastAccess + LeaseTime.
C12_Witness ==
    \E id \in DOMAIN handles :
        /\ last.op = "GetInfo" /\ last.id = id /\ last.res = "ok"
        /\ now > handles[id].LastAccess
        /\ handles[id].ExpiresAt = handles[id].LastAccess + handles[id].LeaseTime
        /\ last.val = handles[id].ExpiresAt

\* C13 as stated: Get returns not-found for an id that was never registered
\* and for an id whose lease has run out, and GetInfo tells the two apart: for
\* an expired record still in the table it does not answer not-found, as it
\* does for an unknown id.
C13_InfoTellsApart ==
    [][/\ (/\ last'.op = "Get"
           /\ \/ last'.id \notin DOMAIN handles
              \/ now > handles[last'.id].ExpiresAt)
          => last'.res = "notfound"
       /\ (last'.op = "GetInfo" /\ last'.id \notin DOMAIN handles)
          => last'.res = "notfound"
       /\ (/\ last'.op = "GetInfo"
           /\ last'.id \in DOMAIN handles
           /\ now > handles[last'.id].ExpiresAt)
          => last'.res # "notfound"]_vars

\* C14: a plugin Close that returns an error keeps no record in the table and
\* stops no other close: a reaper tick removes and closes every record whose
\* lease has run out, Close(id) removes the id, and the sweep of Stop closes
\* every record and empties the table, whichever of the plugin Closes fail.
C14_FailedCloseStillReclaims ==
    [][/\ last'.op = "cleanup"
          => \A id \in DOMAIN handles :
                now > handles[id].ExpiresAt
                => /\ id \notin DOMAIN handles'
                   /\ handles[id].Handle \in last'.closed
                   /\ closes'[handles[id].Handle] = <<"cleanup">>
       /\ (last'.op = "Close" /\ last'.id \in DOMAIN handles)
          => /\ last'.id \notin DOMAIN handles'
             /\ closes'[handles[last'.id].Handle] = <<"Close">>
       /\ last'.op = "Stop"
          => /\ handles' = [i \in {} |-> 0]
             /\ last'.closed = InTable
             /\ \A h \in InTable : closes'[h] = <<"Stop">>
       /\ last'.failed \subseteq last'.closed]_vars

\* The sweep of Stop has closed two records and emptied the table although one
\* of the two plugin Closes returned an error; before it a reaper tick and a
\* Close(id) cannot have failed on them.
C14_Witness ==
    /\ last.op = "Stop"
    /\ Cardinality(last.closed) = 2
    /\ Cardinality(last.failed) = 1
    /\ handles = [i \in {} |-> 0]
    /\ \A h \in last.closed : closes[h] = <<"Stop">>

\* ------------------------------------------------------------ properties of the FUSE bridge

\* The records of the bridge's table that are local ones
LocalHandles == {h \in DOMAIN bridgeHandles : bridgeHandles[h].htype = "local"}

\* The plugin read of a local handle: client.Read(path, 0, -1)
PluginRead(path) == Rpc("Read", path, 0, 0, -1, <<>>)

\* C15 as stated: for a LOCAL handle the plugin read is invoked exactly once,
\* on the first read of the handle, and no later read invokes it.
C15_Original ==
    [][\A h \in LocalHandles :
          (lastCall'.op = "Read" /\ lastCall'.h = h)
          => IF h \in readsSeen
             THEN lastCall'.rpcs = <<>>
             ELSE lastCall'.rpcs = <<PluginRead(bridgeHandles[h].path)>>]_vars

\* C15: for a LOCAL handle, whose reads come one after another between open
\* and close, a read invokes the plugin read, as read(path, 0, -1) and nothing
\* else, exactly when no plugin read of the handle has succeeded yet.  A read
\* whose plugin read fails returns an error and keeps no payload; the one that
\* succeeds keeps the payload, also an empty one, and from then on every read
\* returns payload[offset .. min(offset + size, length)) of that one payload
\* without a call to the server, whatever was written since, and the payload
\* stays as it is while the handle is in the table.
C15_OnePayload ==
    [][\A h \in LocalHandles :
          LET info == bridgeHandles[h]
          IN  /\ (h \in DOMAIN bridgeHandles' /\ info.readBuffer # <<>>)
                 => bridgeHandles'[h].readBuffer = info.readBuffer
              /\ \A a \in ReadArgs, answer \in {"ok", "internal"} :
                    DoRead(1, h, a[1], a[2], answer)
                    => IF info.readBuffer # <<>>
                       THEN /\ lastCall'.rpcs = <<>>
                            /\ lastCall'.res = "ok"
                            /\ lastCall'.data = Slice(info.readBuffer[1], a[1], a[2])
                       ELSE /\ lastCall'.rpcs = <<PluginRead(info.path)>>
                            /\ IF answer = "ok"
                               THEN /\ lastCall'.res = "ok"
                                    /\ bridgeHandles'[h].readBuffer = <<files[info.path]>>
                                    /\ lastCall'.data = Slice(files[info.path], a[1], a[2])
                               ELSE /\ lastCall'.res = "error"
                                    /\ bridgeHandles'[h].readBuffer = <<>>]_vars

\* A read of a local handle was answered with bytes of the payload kept at an
\* earlier read, after a write gave the file another content.
C15_Witness ==
    /\ lastCall.op = "Read"
    /\ lastCall.h \in LocalHandles
    /\ lastCall.rpcs = <<>>
    /\ lastCall.data # <<>>
    /\ bridgeHandles[lastCall.h].readBuffer # <<files[lastCall.path]>>

\* C16: a write on a LOCAL handle sends exactly one plugin write, carrying the
\* bytes of that call, within the call, and keeps nothing in the record; when
\* the server accepts it the file holds those bytes as the call returns.  No
\* other call of the bridge (sync, close, close-all, read, open) sends a
\* plugin write.
C16_WriteThrough ==
    [][/\ \A h \in LocalHandles :
             \A data \in WriteData, answer \in {"ok", "internal"} :
                DoWrite(1, h, data, 0, answer)
                => /\ lastCall'.rpcs = <<Rpc("Write", bridgeHandles[h].path, 0, 0, 0, data)>>
                   /\ bridgeHandles' = bridgeHandles
                   /\ lastCall'.res = (IF answer = "ok" THEN "ok" ELSE "error")
                   /\ answer = "ok" => files'[bridgeHandles[h].path] = data
       /\ lastCall'.op # "Write"
          => \A i \in DOMAIN lastCall'.rpcs : lastCall'.rpcs[i].rpc # "Write"
       /\ \A h \in LocalHandles :
             (lastCall'.h = h /\ lastCall'.op \in {"Sync", "Close"})
             => lastCall'.rpcs = <<>> /\ lastCall'.res = "ok"]_vars

\* A sync on a local handle returned after a write through a local handle had
\* replaced the content of the file by the bytes of the call.
C16_Witness ==
    /\ lastCall.op = "Sync"
    /\ lastCall.h \in LocalHandles
    /\ files[lastCall.path] = <<3>>

\* C17: an open that succeeds adds exactly one record, under a FUSE handle id
\* not in the table, and leaves the other records alone: a remote record with
\* the server's handle id when the server grants a handle, a local record
\* when the server answers not-supported.  On any other answer open fails and
\* the table is unchanged.
C17_OpenAddsOne ==
    [][lastCall'.op = "Open"
       => LET h == lastCall'.h
          IN  IF lastCall'.kind \in {"ok", "not-supported"}
              THEN /\ lastCall'.res = "ok"
                   /\ h \notin DOMAIN bridgeHandles
                   /\ DOMAIN bridgeHandles' = DOMAIN bridgeHandles \cup {h}
                   /\ \A k \in DOMAIN bridgeHandles : bridgeHandles'[k] = bridgeHandles[k]
                   /\ bridgeHandles'[h].path = lastCall'.path
                   /\ IF lastCall'.kind = "ok"
                      THEN /\ bridgeHandles'[h].htype = "remote"
                           /\ bridgeHandles'[h].agfsHandle = AgfsHandle(h)
                      ELSE bridgeHandles'[h].htype = "local"
              ELSE /\ lastCall'.res = "EIO"
                   /\ bridgeHandles' = bridgeHandles]_vars

\* An open answered not-supported added a local record to a table that held
\* a remote one.
C17_Witness ==
    /\ lastCall.op = "Open"
    /\ lastCall.kind = "not-supported"
    /\ lastCall.h \in LocalHandles
    /\ \E k \in DOMAIN bridgeHandles : bridgeHandles[k].htype = "remote"

\* The server handle ids that a thread holds between the unlock of Close or
\* CloseAll and its calls of CloseHandle
Pending(a) == {t \in Threads : a \in pc[t].agfs}

\* C18: whatever the interleaving of Close, CloseAll and the error path of
\* Create, and whatever the server answers to a close, close-handle is sent
\* at most once for a server handle: a handle is in the table, or held by
\* one thread that is about to close it, or closed once, never two of these.
\* A Create that fails leaves the record it opened out of the table, and
\* CloseAll leaves the table empty as it releases the lock.
C18_CloseSentOnce ==
    /\ \A a \in AgfsIds :
          closeSent[a] + Cardinality(Pending(a))
          + Cardinality({h \in DOMAIN bridgeHandles :
                            bridgeHandles[h].htype = "remote"
                            /\ bridgeHandles[h].agfsHandle = a}) <= 1
    /\ (lastCall.op = "Create" /\ lastCall.res = "EIO")
       => lastCall.h \notin DOMAIN bridgeHandles
    /\ (lastCall.op = "CloseAll.locked" \/ (lastCall.op = "CloseAll" /\ lastCall.rpcs = <<>>))
       => DOMAIN bridgeHandles = {}

\* Create failed at its Stat and its Close found the record gone: CloseAll on
\* the other thread had taken it and has sent its one close-handle.
C18_Witness ==
    /\ lastCall.op = "Create"
    /\ lastCall.res = "EIO"
    /\ lastCall.rpcs = <<NoRpc("Stat", lastCall.path)>>
    /\ lastCall.h \in FuseIds
    /\ closeSent[AgfsHandle(lastCall.h)] = 1

\* C19: a getattr or a readdir that is answered from a cache is answered from
\* an entry stored after the last successful mutating operation on the path,
\* or on a child of the listed directory.
C19_NoStaleAnswer ==
    /\ (lastCall.op = "Getattr" /\ lastCall.rpcs = <<>>) => ~metaCache[lastCall.path]
    /\ (lastCall.op = "Readdir" /\ lastCall.rpcs = <<>>) => ~dirCache[lastCall.path]

\* The POSIX error number of each kind of error
Errno(kind) ==
    CASE kind = "not-found" -> "ENOENT"
      [] kind = "already-exists" -> "EEXIST"
      [] kind = "is-directory" -> "EISDIR"
      [] kind = "not-directory" -> "ENOTDIR"
      [] kind = "permission-denied" -> "EACCES"
      [] kind = "read-only" -> "EROFS"
      [] kind = "invalid-argument" -> "EINVAL"
      [] kind = "not-supported" -> "ENOSYS"
      [] OTHER -> "EIO"

\* The operations of node.go, as lastCall names them
NodeOps == {"Getattr", "Lookup", "Readdir", "Mkdir", "Symlink", "Rmdir", "Unlink",
            "Rename", "Readlink", "Setattr", "Create", "Open"}

\* C20: a node operation that fails on an error of the server returns the
\* error number of that error's kind.
C20_ErrnoByKind ==
    (lastCall.op \in NodeOps /\ lastCall.kind \in ErrKinds)
    => lastCall.res = Errno(lastCall.kind)

\* ------------------------------------------------------------ properties of the locks

\* Goroutine t is in a call out of its package
InCall(t) == StmtAt(t) \in ClientCalls \cup PluginCalls

\* C21: while a goroutine of the bridge is in a call to the server it does not
\* hold the bridge's table lock, so no other goroutine waits for the lock
\* because of the call.
C21_NoLockAcrossServerCall ==
    \A t \in Threads :
        (lockPc[t].mu = "fusefs" /\ InCall(t))
        => /\ Held(t) = "no"
           /\ \A u \in Threads \ {t} :
                  (lockPc[u].mu = "fusefs" /\ StmtAt(u) = "Lock") => ENABLED Lock(u)

\* One goroutine of the bridge is in client.Read while another holds the lock.
C21_Witness ==
    \E t, u \in Threads :
        /\ lockPc[t].mu = "fusefs" /\ StmtAt(t) = "Read"
        /\ lockPc[u].mu = "fusefs" /\ Held(u) = "write"

\* C30 as stated: while a goroutine of the server's handle manager is in a
\* plugin's Close it does not hold the manager's table lock.
C30_Original ==
    \A t \in Threads :
        (lockPc[t].mu = "filesystem" /\ InCall(t)) => Held(t) = "no"

\* ------------------------------------------------------------ properties of the index queue

C24_Original == v.did.op = "workerExit" => v.did.len = 0

\* C25 as stated: the chunks of one digest are never present twice.
C25_Original == \A d \in DOMAIN v.chunks : v.chunks[d] <= 1

\* C23 as stated: a supervisor that runs after shutdown was signalled drops
\* its task and removes the task's marker.
C23_Original ==
    (v.did.op = "supervisor" /\ v.did.shut)
    => (v.did.out = "dropped" /\ v.did.digest \notin v.indexingStatus)

\* C37 as stated: no send on the index queue is made after Shutdown has closed
\* it, neither by a write nor by an overflow goroutine.
C37_Original == ~v.panicked

\* The tasks that are in the queue, held by an overflow goroutine or with a worker
Busy(pl) == {w \in Workers : pl.workers[w].at = "busy" /\ pl.workers[w].task # ZeroTask}

InFlight(pl) ==
    {pl.indexQueue[i] : i \in DOMAIN pl.indexQueue}
    \cup {pl.supervisors[i] : i \in DOMAIN pl.supervisors}
    \cup {pl.workers[w].task : w \in Busy(pl)}

InFlightCount(pl) == Len(pl.indexQueue) + Len(pl.supervisors) + Cardinality(Busy(pl))

\* C38 as stated: every task in flight has its marker in the in-flight map, so
\* .indexing reads idle only when no task is pending or running.
C38_Original == \A task \in InFlight(v) : task.digest \in v.indexingStatus

\* C39: while Shutdown is not called, a task that a write has accepted stays in
\* flight, in the queue, with an overflow goroutine or with one worker, until a
\* worker has run IndexChunks on it once; that step, whether IndexChunks
\* succeeded or failed, takes this one task out of flight and removes the
\* marker of its digest, no other step takes a task out of flight or brings one
\* back, and every task in flight is processed in the end.
C39_ProcessedOnce ==
    /\ [][/\ \A fileName \in FileNames, data \in Contents :
                DocWrite(fileName, data)
                => InFlightCount(v') = InFlightCount(v)
                                       + (IF v'.did.out = "exists" THEN 0 ELSE 1)
          /\ \A w \in Workers, failed \in BOOLEAN :
                WorkerIndex(w, failed)
                => /\ InFlightCount(v') = InFlightCount(v) - 1
                   /\ v.workers[w].task.digest \notin v'.indexingStatus
                   /\ v'.workers[w] = AtSelect
          /\ (v'.did.op \in {"supervisor", "receive"})
                => InFlightCount(v') = InFlightCount(v)]_vars
    /\ (InFlightCount(v) > 0) ~> (InFlightCount(v) = 0)

\* Every write has been made, and a worker whose IndexChunks failed has now
\* finished the last task in flight; no marker is left.
C39_Witness ==
    /\ v.did.op = "indexed" /\ v.did.out = "error"
    /\ v.writes = MaxWrites
    /\ InFlightCount(v) = 0
    /\ v.indexingStatus = {}

\* The file names that have a metadata record
Listed(pl) == {pl.meta[d] : d \in DOMAIN pl.meta}

\* C40 as stated: a write to one file name leaves the metadata record of every
\* other file name in place.
C40_Original ==
    [][\A fileName \in FileNames, data \in Contents :
          DocWrite(fileName, data) => Listed(v) \ {fileName} \subseteq Listed(v')]_vars

\* ------------------------------------------------------------ properties of the file plugins

\* The call just made read the whole of a file, and the call before it was a
\* Truncate of that file that returned nil.
ReadAfterTruncate(fs, path) ==
    /\ plug.did.op = "Read" /\ plug.did.fs = fs /\ plug.did.path = path
    /\ plug.did.offset = 0 /\ plug.did.size = -1
    /\ plug.did.prev.op = "Truncate" /\ plug.did.prev.fs = fs
    /\ plug.did.prev.path = path /\ plug.did.prev.err = "ok"

\* C26 as stated: in every plugin, a read of the whole file that follows a
\* successful truncate(path, n) returns the n bytes of the old content cut or
\* padded with zeros to n, without an error.
C26_Original ==
    \A fs \in Stores \cup {"devfs"}, path \in {"/file", "/null"} :
        ReadAfterTruncate(fs, path)
        => /\ plug.did.ret.err = "ok"
           /\ plug.did.ret.data = Resized(plug.did.prev.before, plug.did.prev.size)

\* C26: a read of the whole file that follows a successful truncate(path, n)
\* returns, in s3fs, the old content cut or padded with zeros to n bytes; in
\* vectorfs the old content as it was; for /null of DevFS no bytes and the end
\* of file.  A truncate to the current size succeeds and changes nothing.
C26_TruncateThenRead ==
    /\ ReadAfterTruncate("s3fs", "/file")
       => /\ plug.did.ret.err = "ok"
          /\ plug.did.ret.data = Resized(plug.did.prev.before, plug.did.prev.size)
    /\ ReadAfterTruncate("vectorfs", "/file")
       => /\ plug.did.ret.err = "ok"
          /\ plug.did.ret.data = plug.did.prev.before
    /\ ReadAfterTruncate("devfs", "/null")
       => /\ plug.did.ret.err = "EOF"
          /\ plug.did.ret.data = <<>>
    /\ (plug.did.op = "Truncate" /\ plug.did.fs \in Stores
        /\ plug.did.size = Len(plug.did.before))
       => (plug.did.ret.err = "ok" /\ plug.did.ret.content = plug.did.before)

\* vectorfs answered a truncate of a two-byte document to another size, and the
\* read that followed returned the two bytes.
C26_Witness ==
    /\ ReadAfterTruncate("vectorfs", "/file")
    /\ Len(plug.did.prev.before) = 2 /\ plug.did.prev.size # 2
    /\ plug.did.ret.data = plug.did.prev.before

\* C27 as stated: chmod on an existing path returns no error and changes
\* nothing, in each of vectorfs, DevFS and sqlfs2.
C27_Original ==
    plug.did.op = "Chmod"
    => (plug.did.ret.err = "ok" /\ plug.did.ret.content = plug.did.before)

\* C27: chmod on an existing path returns no error in vectorfs and an error in
\* DevFS and in sqlfs2; in all three it changes nothing.
C27_ChmodChangesNothing ==
    plug.did.op = "Chmod"
    => /\ plug.did.ret.content = plug.did.before
       /\ plug.did.fs = "vectorfs" => plug.did.ret.err = "ok"
       /\ plug.did.fs = "devfs" => plug.did.ret.err = "read-only filesystem"
       /\ plug.did.fs = "sqlfs2" => plug.did.ret.err = "operation not supported: chmod"

\* DevFS was asked to change the mode of /null, with a document stored in
\* vectorfs.
C27_Witness ==
    /\ plug.did.op = "Chmod" /\ plug.did.fs = "devfs" /\ plug.did.path = "/null"
    /\ plug.files["vectorfs"] # <<>>

\* The read just made started at or past the end of an existing file.
ReadPastEnd ==
    /\ plug.did.op = "Read"
    /\ plug.did.fs \in {"bridge", "devfs"}
    /\ plug.did.fs = "devfs" => plug.did.path = "/null"
    /\ plug.did.offset >= Len(plug.did.before)

\* C28 as stated: a read at or past the end of the file returns an empty slice
\* and no error, from a LOCAL handle's buffer and from /null of DevFS.
C28_Original ==
    ReadPastEnd => (plug.did.ret.err = "ok" /\ plug.did.ret.data = <<>>)

\* C28: a read at or past the end of the file returns an empty slice and no
\* error from a LOCAL handle's buffer, and a nil slice with io.EOF from /null
\* of DevFS.
C28_ReadPastEnd ==
    ReadPastEnd
    => IF plug.did.fs = "bridge"
       THEN plug.did.ret = Returned("ok", <<>>, FALSE, plug.did.before)
       ELSE plug.did.ret = Returned("EOF", <<>>, TRUE, <<>>)

\* The bridge was read at the end of a buffer that holds bytes.
C28_Witness ==
    /\ ReadPastEnd /\ plug.did.fs = "bridge"
    /\ plug.did.before # <<>> /\ plug.did.offset = Len(plug.did.before)

\* ------------------------------------------------------------ properties of the symlink overlay

\* C29: a resolution follows at most MaxDepth links and then either yields a
\* path none of whose prefixes is a symlink, or fails with symlink-loop, having
\* followed MaxDepth links and standing at a symlink still.
C29_ResolutionTerminates ==
    sym.did.op = "resolve"
    => /\ sym.did.ret.hops <= MaxDepth
       /\ sym.did.ret.err \in {"ok", "symlink-loop"}
       /\ sym.did.ret.err = "ok" => LinkPrefixes(sym.links, sym.did.ret.path) = {}
       /\ sym.did.ret.err = "symlink-loop"
          => /\ sym.did.ret.hops = MaxDepth
             /\ LinkPrefixes(sym.links, sym.did.ret.path) # {}

\* The chain /a/1 -> /b/2 -> /a/3 -> 1 is a cycle across the two mounts, and a
\* path below /a/1 was resolved.
C29_Witness ==
    /\ sym.did.op = "resolve" /\ sym.did.path = NodePath(1) \o <<"x">>
    /\ DOMAIN sym.links = {NodePath(1), NodePath(2), NodePath(3)}
    /\ sym.links[NodePath(3)] = Relative(<<1>>)
    /\ sym.did.ret.err = "symlink-loop"

\* ------------------------------------------------------------ properties of List

\* C32 as stated: List returns the records that GetInfo, and Get, would find at
\* the same instant, and no others.
C32_Original ==
    last.op = "List"
        => last.val = {id \in DOMAIN handles : GetInfo(handles, id, now).res = "ok"}

\* C33 as stated: once Stop has returned the table is empty and stays empty, so
\* every plugin handle that Register accepted and that has left the table, or
\* was registered after Stop, has had its Close invoked.
C33_Original ==
    stopPc = "done"
        => /\ handles = [i \in {} |-> 0]
           /\ \A id \in Issued : closes[registered[id]] # <<>>

\* ------------------------------------------------------------ properties of concurrent reads

\* A thread that is in Read with the payload the plugin read gave it
HasPayload(t) == pc[t].op = "Read" /\ pc[t].at = "store"

\* C34 as stated: for one open of a local handle the plugin read is invoked
\* at most once, also when several reads run together before the buffer is
\* filled, and the reads return slices of one payload: no two threads hold a
\* payload of their own for the same handle, and a thread's payload is the one
\* in the buffer once the buffer is filled.
C34_Original ==
    \A t \in Threads :
        HasPayload(t)
        => /\ \A u \in Threads \ {t} : HasPayload(u) => pc[u].h # pc[t].h
           /\ (pc[t].h \in DOMAIN bridgeHandles
               /\ bridgeHandles[pc[t].h].readBuffer # <<>>)
                  => bridgeHandles[pc[t].h].readBuffer = <<pc[t].data>>

\* C35 as stated: a Getattr or Lookup that missed the cache and is fetching
\* from the server while a mutating operation on the path completes does not
\* leave its answer in the attribute cache: no entry of the cache is older than
\* a successful mutating operation on its path.
C35_Original == \A path \in DOMAIN metaCache : ~metaCache[path]

\* path lies below the directory dir
Below(path, dir) ==
    Len(path) > Len(dir) /\ SubSeq(path, 1, Len(dir)) = dir

\* C36 as stated: after a successful Rename or Rmdir of a directory, a Getattr
\* of a path below the old directory and a Readdir of the old directory or of
\* one of its subdirectories are not answered from the caches, whose entries
\* for these paths were stored before the operation.
C36_Original ==
    [][(lastCall.op \in {"Rename", "Rmdir"} /\ lastCall.res = "ok")
          => /\ (lastCall'.op = "Getattr" /\ Below(lastCall'.path, lastCall.path))
                    => lastCall'.rpcs # <<>>
             /\ (/\ lastCall'.op = "Readdir"
                 /\ \/ lastCall'.path = lastCall.path
                    \/ Below(lastCall'.path, lastCall.path))
                    => lastCall'.rpcs # <<>>]_vars

\* ------------------------------------------------------------ properties of the handlers' statements

\* C31: between the expiry test of a record and the plugin Close that follows
\* it no other goroutine is inside a handler: Get never returns a plugin handle
\* whose Close has been invoked, and a Close that follows an expiry test finds
\* the record in the table with the ExpiresAt that was tested.
C31_NoAccessBetweenCheckAndClose ==
    /\ \A t \in Goroutines :
           reap.g[t].pc \in {"Close", "delete"} => InBody(reap, t) = {}
    /\ (reap.did.op = "Get" /\ reap.did.stmt = "refresh")
           => reap.did.val \notin reap.closed
    /\ reap.did.stmt = "Close" => ~reap.did.refreshed

\* cleanup has just closed a record while a Get of the same record, called before
\* the lease ran out, waits for the lock.
C31_Witness ==
    /\ reap.did.who = "cleanupLoop" /\ reap.did.stmt = "Close"
    /\ \E t \in Clients :
           /\ reap.g[t].op = "Get" /\ reap.g[t].pc = "Lock"
           /\ reap.g[t].id = reap.g["cleanupLoop"].mh.id

TypeOK ==
    /\ now \in 0..MaxTime
    /\ stopCh \in {"open", "closed"}
    /\ loopPc \in {"select", "done"}
    /\ stopPc \in {"idle", "wait", "done"}
    /\ DOMAIN handles \subseteq 1..MaxRegs
====
